---- MODULE Spec2Model ----
(***************************************************************************)
(* Model of the CRT repository's refinement sanitizer                      *)
(* (src/src/refinement.rs) and document parser (src/src/parser.rs).        *)
(*                                                                         *)
(* A Rust String is a sequence of one-character strings; an Option<T> is a *)
(* sequence of length 0 (None) or 1 (Some); a u32 is a pair <<hi, lo>> of  *)
(* 16-bit halves, so that values up to u32::MAX and the overflow of        *)
(* `+ 1` are represented exactly.                                          *)
(***************************************************************************)
EXTENDS Integers, Sequences, FiniteSets, TLC

\* ------------------------------------------------------------------ bounds
\* The proposal has at most MaxItems entities and links together.
MaxItems == 3
\* A document has at most MaxLines entity and link lines.
MaxLines == 3

\* ------------------------------------------------------------------ u32
\* 2^16: a u32 is hi * Half + lo with hi, lo in 0 .. Half - 1.
Half == 65536

U32Max == <<Half - 1, Half - 1>>

U32Zero == <<0, 0>>

\* A small number as a u32.
U32Of(n) == <<n \div Half, n % Half>>

U32Less(a, b) == a[1] < b[1] \/ (a[1] = b[1] /\ a[2] < b[2])

\* a + 1 in release arithmetic: wraps to 0 at u32::MAX.
U32WrappingInc(a) ==
    IF a[2] + 1 < Half THEN <<a[1], a[2] + 1>>
    ELSE IF a[1] + 1 < Half THEN <<a[1] + 1, 0>>
    ELSE U32Zero

\* Iterator::max over a set of u32 values, unwrap_or(0).
U32MaxOf(S) ==
    IF S = {} THEN U32Zero
    ELSE CHOOSE m \in S : \A x \in S : ~U32Less(m, x)

\* ------------------------------------------------------------------ i32
\* An i32 is its 32 bits, as the pair <<high half, low half>> of the two's
\* complement representation.
I32Zero == <<0, 0>>
I32MaxValue == <<(Half \div 2) - 1, Half - 1>>
I32MinValue == <<Half \div 2, 0>>

\* The i32 of an integer n with -2^31 < n < 2^31.
I32Of(n) ==
    IF n >= 0 THEN <<n \div Half, n % Half>>
    ELSE LET m == (n + 1) + 2147483647
         IN  <<(Half \div 2) + (m \div Half), m % Half>>

I32Negative(a) == a[1] >= Half \div 2

\* a + b: [overflow, value], value being the wrapped sum.
I32Add(a, b) ==
    LET lo == a[2] + b[2]
        r  == <<(a[1] + b[1] + (lo \div Half)) % Half, lo % Half>>
    IN  [overflow |-> I32Negative(a) = I32Negative(b) /\ I32Negative(r) # I32Negative(a),
         value |-> r]

\* The bits of -a.
I32Negate(a) == U32WrappingInc(<<Half - 1 - a[1], Half - 1 - a[2]>>)

\* a - b: [overflow, value].
I32Sub(a, b) ==
    LET r == I32Add(a, I32Negate(b)).value
    IN  [overflow |-> I32Negative(a) # I32Negative(b) /\ I32Negative(r) # I32Negative(a),
         value |-> r]

\* i32::abs: [overflow, value]; the absolute value of i32::MIN overflows and
\* wraps to i32::MIN.
I32Abs(a) ==
    IF I32Negative(a) THEN [overflow |-> a = I32MinValue, value |-> I32Negate(a)]
    ELSE [overflow |-> FALSE, value |-> a]

\* a <= b on i32.
I32LessEq(a, b) ==
    IF I32Negative(a) # I32Negative(b) THEN I32Negative(a)
    ELSE a = b \/ U32Less(a, b)

\* ------------------------------------------------------------------ strings
Digits == {"0", "1", "2", "3", "4", "5", "6", "7", "8", "9"}

DigitVal(c) ==
    CASE c = "0" -> 0 [] c = "1" -> 1 [] c = "2" -> 2 [] c = "3" -> 3
      [] c = "4" -> 4 [] c = "5" -> 5 [] c = "6" -> 6 [] c = "7" -> 7
      [] c = "8" -> 8 [] c = "9" -> 9

DigitChar(d) ==
    CASE d = 0 -> "0" [] d = 1 -> "1" [] d = 2 -> "2" [] d = 3 -> "3"
      [] d = 4 -> "4" [] d = 5 -> "5" [] d = 6 -> "6" [] d = 7 -> "7"
      [] d = 8 -> "8" [] d = 9 -> "9"

AllDigits(s) == \A i \in 1..Len(s) : s[i] \in Digits

\* s without its first n characters.
Drop(s, n) == SubSeq(s, n + 1, Len(s))

\* str::parse::<u32>: an optional '+', then one or more decimal digits whose
\* value fits 32 bits.  The result is <<>> (Err) or <<v>> (Ok(v)).
RECURSIVE ParseDigits(_, _)
ParseDigits(s, acc) ==
    IF acc = <<>> \/ s = <<>> THEN acc
    ELSE LET lo10 == acc[1][2] * 10 + DigitVal(Head(s))
             hi10 == acc[1][1] * 10 + (lo10 \div Half)
         IN  IF hi10 >= Half THEN <<>>
             ELSE ParseDigits(Tail(s), << <<hi10, lo10 % Half>> >>)

ParseU32(s) ==
    LET body == IF s # <<>> /\ Head(s) = "+" THEN Tail(s) ELSE s
    IN  IF body = <<>> \/ ~AllDigits(body) THEN <<>>
        ELSE ParseDigits(body, <<U32Zero>>)

\* format!("{}", n) for a u32.
RECURSIVE FormatU32(_)
FormatU32(a) ==
    LET r1  == a[1] % 10
        mid == r1 * Half + a[2]
        q   == <<a[1] \div 10, mid \div 10>>
        d   == <<DigitChar(mid % 10)>>
    IN  IF q = U32Zero THEN d ELSE FormatU32(q) \o d

\* str::trim_start_matches(c).
RECURSIVE TrimStartMatches(_, _)
TrimStartMatches(s, c) ==
    IF s # <<>> /\ Head(s) = c THEN TrimStartMatches(Tail(s), c) ELSE s

IsSpace(c) == c \in {" ", "\t"}

RECURSIVE TrimStart(_)
TrimStart(s) == IF s # <<>> /\ IsSpace(Head(s)) THEN TrimStart(Tail(s)) ELSE s

RECURSIVE TrimEnd(_)
TrimEnd(s) ==
    IF s # <<>> /\ IsSpace(s[Len(s)]) THEN TrimEnd(SubSeq(s, 1, Len(s) - 1)) ELSE s

\* A trim that removes nothing.
TrimNothing(s) == s

\* str::trim.
Trim(s) == TrimEnd(TrimStart(s))

\* Does pat occur in s at position i?
MatchesAt(s, pat, i) ==
    /\ i + Len(pat) - 1 <= Len(s)
    /\ SubSeq(s, i, i + Len(pat) - 1) = pat

\* Position of the first occurrence of pat in s, 0 when there is none.
FindFirst(s, pat) ==
    IF \E i \in 1..Len(s) : MatchesAt(s, pat, i)
    THEN CHOOSE i \in 1..Len(s) :
            MatchesAt(s, pat, i) /\ \A j \in 1..(i - 1) : ~MatchesAt(s, pat, j)
    ELSE 0

\* Regex ^<prefix>\d+$ for a one-character prefix.
MatchesPrefixDigits(s, prefix) ==
    Len(s) >= 2 /\ Head(s) = prefix /\ AllDigits(Tail(s))


\* ------------------------------------------------------------------ sequences
Range(f) == {f[x] : x \in DOMAIN f}

Contains(seq, x) == \E i \in 1..Len(seq) : seq[i] = x

\* Vec::retain with a HashSet of seen values: the first occurrence of each
\* value, in order.
RECURSIVE dedup(_)
dedup(values) ==
    IF values = <<>> THEN <<>>
    ELSE LET init == dedup(SubSeq(values, 1, Len(values) - 1))
             last == values[Len(values)]
         IN  IF Contains(init, last) THEN init ELSE Append(init, last)

\* All orders in which a HashMap may iterate over the key set S.
RECURSIVE Orders(_)
Orders(S) ==
    IF S = {} THEN {<<>>}
    ELSE UNION {{<<k>> \o o : o \in Orders(S \ {k})} : k \in S}

\* ------------------------------------------------------------------ sanitizer
\* Regex::new(r"^E\d+$") and Regex::new(r"^L\d+$").
valid_entity_regex(id) == MatchesPrefixDigits(id, "E")

valid_link_regex(id) == MatchesPrefixDigits(id, "L")

\* The numeric suffixes the code extracts from a set of ids:
\* filter_map(|id| id.trim_start_matches(prefix).parse::<u32>().ok()).
Suffixes(ids, prefix) ==
    {ParseU32(TrimStartMatches(id, prefix))[1] :
        id \in {i \in ids : ParseU32(TrimStartMatches(i, prefix)) # <<>>}}

\* `max().unwrap_or(0) + 1`.  checks = TRUE is a build with overflow checks
\* (the addition panics at u32::MAX), FALSE a build without (it wraps).
\* Result: [panic, wrapped, next].
InitialIndex(ids, prefix, checks) ==
    LET m == U32MaxOf(Suffixes(ids, prefix))
    IN  IF m = U32Max
        THEN [panic |-> checks, wrapped |-> ~checks, next |-> U32Zero]
        ELSE [panic |-> FALSE, wrapped |-> FALSE, next |-> U32WrappingInc(m)]

\* The allocation loop `loop { candidate = format!("{prefix}{next}");
\* next += 1; if !used.contains(&candidate) { used.insert; break } }`.
\* Result: [panic, wrapped, id, next, used].
RECURSIVE AllocLoop(_, _, _, _, _)
AllocLoop(prefix, used, next, checks, wrapped) ==
    LET candidate == <<prefix>> \o FormatU32(next)
        over      == next = U32Max
    IN  IF over /\ checks
        THEN [panic |-> TRUE, wrapped |-> wrapped, id |-> candidate,
              next |-> next, used |-> used]
        ELSE IF candidate \notin used
        THEN [panic |-> FALSE, wrapped |-> wrapped \/ over, id |-> candidate,
              next |-> U32WrappingInc(next), used |-> used \cup {candidate}]
        ELSE AllocLoop(prefix, used, U32WrappingInc(next), checks, wrapped \/ over)

\* Lines 116-125: does the proposed entity need a fresh id?
NeedsNew(entity, existing, used) ==
    IF ~valid_entity_regex(entity.id) THEN TRUE
    ELSE IF entity.id \in existing THEN entity.added
    ELSE entity.id \in used

\* HashMap::insert(old, new): a later insert of the same key overwrites.
MapInsert(m, k, v) == [x \in (DOMAIN m) \cup {k} |-> IF x = k THEN v ELSE m[x]]

EmptyMap == [x \in {} |-> <<>>]

\* A lookup that maps its result again.
LookupTwice(m, k) ==
    IF k \in DOMAIN m
    THEN (IF m[k] \in DOMAIN m THEN m[m[k]] ELSE m[k])
    ELSE k

\* HashMap::get(key).cloned().unwrap_or(key): one lookup.
Lookup(m, k) == IF k \in DOMAIN m THEN m[k] ELSE k


\* update_refs without the test against known_ids.
RECURSIVE update_refs_unchecked(_, _, _)
update_refs_unchecked(value, mapping, known) ==
    IF value = <<>> THEN <<>>
    ELSE LET mapped == IF Head(value) \in DOMAIN mapping
                       THEN mapping[Head(value)] ELSE Head(value)
             rest   == update_refs_unchecked(Tail(value), mapping, known)
         IN  IF valid_entity_regex(mapped) THEN <<mapped>> \o rest ELSE rest

\* Lines 193-210: map each reference once through id_mapping and keep it when
\* it has the entity shape and is a known id.
RECURSIVE update_refs(_, _, _)
update_refs(value, mapping, known) ==
    IF value = <<>> THEN <<>>
    ELSE LET mapped == Lookup(mapping, Head(value))
             rest   == update_refs(Tail(value), mapping, known)
         IN  IF valid_entity_regex(mapped) /\ mapped \in known
             THEN <<mapped>> \o rest
             ELSE rest

\* Lines 216-236 (from) and 238-258 (to): map the scalar reference, keep it
\* when it is valid and known, else clear it.  <<>> is None.
update_scalar(ref, mapping, known) ==
    IF ref = <<>> THEN <<>>
    ELSE LET val == Lookup(mapping, ref[1])
         IN  IF valid_entity_regex(val) /\ val \in known THEN <<val>> ELSE <<>>

\* An accepted scalar that is not added to the list.
BackFillNever(list, ref) == list

\* `if !list.contains(val) { list.push(val) }` for an accepted scalar.
BackFill(list, ref) ==
    IF ref # <<>> /\ ~Contains(list, ref[1]) THEN Append(list, ref[1]) ELSE list

\* Regex::replace_all for a pattern that is a literal string: the leftmost
\* non-overlapping occurrences of pat, each replaced by new.
RECURSIVE ReplaceAllLiteral(_, _, _)
ReplaceAllLiteral(text, pat, new) ==
    IF text = <<>> THEN <<>>
    ELSE IF MatchesAt(text, pat, 1)
    THEN new \o ReplaceAllLiteral(Drop(text, Len(pat)), pat, new)
    ELSE <<Head(text)>> \o ReplaceAllLiteral(Tail(text), pat, new)

\* The pattern of line 297.  The raw string literal r"\\b{}\\b" holds two
\* backslashes before each b, so the regex is an escaped backslash followed
\* by the letter b: it matches the four literal characters \b<old>\b, where
\* `\b` is a backslash and a b, and is no word-boundary assertion.
MappingPattern(old) == <<"\\", "b">> \o old \o <<"\\", "b">>

\* apply_mapping (lines 294-301): one replace_all per entry of the map, in
\* the map's iteration order.
RECURSIVE apply_mapping(_, _, _)
apply_mapping(text, mapping, order) ==
    IF order = <<>> THEN text
    ELSE apply_mapping(
            ReplaceAllLiteral(text, MappingPattern(Head(order)), mapping[Head(order)]),
            mapping, Tail(order))

\* A suffix that keeps the whole line.
LineSuffixWhole(existing_line) == Trim(existing_line)

\* Lines 277-283: the line's suffix after the first '.', trimmed; the whole
\* line, trimmed, when it has no '.'.
LineSuffix(existing_line) ==
    LET dot == FindFirst(existing_line, <<".">>)
    IN  IF dot = 0 THEN Trim(existing_line) ELSE Trim(Drop(existing_line, dot))

\* format!("{}. {}", id, rest).
FormatLine(id, rest) == id \o <<".", " ">> \o rest

\* Lines 193-290: everything the link loop does to one link after its id is
\* settled.
SanitizeLinkBody(link, id, mapping, order, known) ==
    LET ents0 == update_refs(link.entities, mapping, known)
        srcs0 == update_refs(link.source_entities, mapping, known)
        tgts0 == update_refs(link.target_entities, mapping, known)
        from1 == update_scalar(link.from, mapping, known)
        srcs1 == BackFill(srcs0, from1)
        ents1 == BackFill(ents0, from1)
        to1   == update_scalar(link.to, mapping, known)
        tgts1 == BackFill(tgts0, to1)
        ents2 == BackFill(ents1, to1)
        text1 == IF link.text = <<>> THEN <<>>
                 ELSE <<apply_mapping(link.text[1], mapping, order)>>
        line1 == IF link.line = <<>> THEN <<>>
                 ELSE <<apply_mapping(link.line[1], mapping, order)>>
        line2 == IF text1 # <<>> THEN <<FormatLine(id, text1[1])>>
                 ELSE IF line1 # <<>> THEN <<FormatLine(id, LineSuffix(line1[1]))>>
                 ELSE <<>>
    IN  [link EXCEPT
            !.id = id,
            !.entities = dedup(ents2),
            !.source_entities = dedup(srcs1),
            !.target_entities = dedup(tgts1),
            !.from = from1,
            !.to = to1,
            !.text = text1,
            !.line = line2,
            !.expressions =
                [i \in 1..Len(link.expressions) |->
                    apply_mapping(link.expressions[i], mapping, order)]]


\* An iteration of the entity loop that also clears the added flag of an
\* entity it renames.
SanitizeEntityUnmarks(st, entity, existing, checks) ==
    IF NeedsNew(entity, existing, st.used)
    THEN LET a == AllocLoop("E", st.used, st.next, checks, FALSE)
         IN  [panic |-> a.panic, wrapped |-> a.wrapped,
              entity |-> [entity EXCEPT !.id = a.id, !.added = FALSE],
              used |-> a.used, next |-> a.next,
              mapping |-> MapInsert(st.mapping, entity.id, a.id)]
    ELSE [panic |-> FALSE, wrapped |-> FALSE, entity |-> entity,
          used |-> st.used \cup {entity.id}, next |-> st.next,
          mapping |-> st.mapping]

\* Lines 115-142: one iteration of the entity loop.  st = [used, next,
\* mapping]; the result adds the entity as rewritten and whether the
\* iteration panicked or wrapped.
SanitizeEntity(st, entity, existing, checks) ==
    IF NeedsNew(entity, existing, st.used)
    THEN LET a == AllocLoop("E", st.used, st.next, checks, FALSE)
         IN  [panic |-> a.panic, wrapped |-> a.wrapped,
              entity |-> [entity EXCEPT !.id = a.id],
              used |-> a.used, next |-> a.next,
              mapping |-> MapInsert(st.mapping, entity.id, a.id)]
    ELSE [panic |-> FALSE, wrapped |-> FALSE, entity |-> entity,
          used |-> st.used \cup {entity.id}, next |-> st.next,
          mapping |-> st.mapping]

\* An id rule that treats an added link like any other.
SanitizeLinkIdIgnoresAdded(st, link, checks) ==
    IF ~valid_link_regex(link.id)
    THEN LET a == AllocLoop("L", st.used, st.next, checks, FALSE)
         IN  [panic |-> a.panic, wrapped |-> a.wrapped, id |-> a.id,
              used |-> a.used, next |-> a.next]
    ELSE [panic |-> FALSE, wrapped |-> FALSE, id |-> link.id,
          used |-> st.used \cup {link.id}, next |-> st.next]

\* Lines 156-191: the id of one link.  st = [used, next].
SanitizeLinkId(st, link, checks) ==
    IF link.added \/ ~valid_link_regex(link.id)
    THEN LET a == AllocLoop("L", st.used, st.next, checks, FALSE)
         IN  [panic |-> a.panic, wrapped |-> a.wrapped, id |-> a.id,
              used |-> a.used, next |-> a.next]
    ELSE [panic |-> FALSE, wrapped |-> FALSE, id |-> link.id,
          used |-> st.used \cup {link.id}, next |-> st.next]

\* ------------------------------------------------------------------ inputs
E1 == <<"E", "1">>
E2 == <<"E", "2">>
E3 == <<"E", "3">>
E7 == <<"E", "7">>
E10 == <<"E", "1", "0">>
X1 == <<"X", "1">>
L1 == <<"L", "1">>
L9 == <<"L", "9">>
LX == <<"l", "i", "n", "k">>
EMax == <<"E">> \o FormatU32(U32Max)
LMax == <<"L">> \o FormatU32(U32Max)
Sp == <<" ">>
Bb == <<"\\", "b">>

Some(x) == <<x>>
None == <<>>

\* The caller's id sets (extract_entity_ids / extract_link_ids of
\* services/backend/src/main.rs yield ids of the shape E\d+ / L\d+).
ExistingPool ==
    {[e |-> e, l |-> {}] : e \in {{}, {E1}, {E1, E2}, {E1, EMax}}}
    \cup {[e |-> {E1}, l |-> l] : l \in {{L1}, {LMax}}}

EntityText == <<"t">>

EntityPool ==
    {[id |-> E1, text |-> EntityText, added |-> TRUE],
     [id |-> E1, text |-> EntityText, added |-> FALSE],
     [id |-> E2, text |-> EntityText, added |-> FALSE],
     [id |-> X1, text |-> EntityText, added |-> FALSE]}

IdCases ==
    {[id |-> L1, added |-> FALSE], [id |-> L1, added |-> TRUE],
     [id |-> LX, added |-> FALSE], [id |-> L9, added |-> TRUE]}

RefCases ==
    {[from |-> None, to |-> None, entities |-> <<>>,
      source_entities |-> <<>>, target_entities |-> <<>>],
     [from |-> Some(E1), to |-> Some(E2), entities |-> <<E2, E1, E2>>,
      source_entities |-> <<E1>>, target_entities |-> <<E3>>],
     [from |-> Some(X1), to |-> Some(E7), entities |-> <<X1, E7, E1>>,
      source_entities |-> <<>>, target_entities |-> <<E2, X1>>],
     [from |-> Some(E2), to |-> None, entities |-> <<E1, E1>>,
      source_entities |-> <<E1, E2, E1>>, target_entities |-> <<>>]}

TextCases ==
    {[text |-> None, line |-> None, expressions |-> <<>>],
     [text |-> None, line |-> Some(L9 \o <<".">> \o Sp \o E1 \o Sp),
      expressions |-> <<E1 \o Sp \o E10, Bb \o E1 \o Bb>>],
     [text |-> Some(Bb \o Bb \o X1 \o Bb \o Bb), line |-> Some(E1),
      expressions |-> <<>>],
     [text |-> Some(E1 \o Sp \o X1), line |-> None,
      expressions |-> <<E10 \o Sp \o E1>>]}

MkLink(i, r, t) ==
    [id |-> i.id, added |-> i.added, kind |-> None,
     from |-> r.from, to |-> r.to, entities |-> r.entities,
     source_entities |-> r.source_entities,
     target_entities |-> r.target_entities,
     text |-> t.text, line |-> t.line, expressions |-> t.expressions]

DefaultId == [id |-> L1, added |-> FALSE]
DefaultRefs == CHOOSE r \in RefCases : r.from = Some(E1)
DefaultText == CHOOSE t \in TextCases : t.text = None /\ t.line = None

\* The proposed links: every id case, every reference case and every text
\* case, each with the other two aspects at their default.
LinkPool ==
    {MkLink(i, DefaultRefs, DefaultText) : i \in IdCases}
    \cup {MkLink(DefaultId, r, DefaultText) : r \in RefCases}
    \cup {MkLink(DefaultId, DefaultRefs, t) : t \in TextCases}
    \cup {MkLink([id |-> L9, added |-> TRUE], DefaultRefs, t) :
                t \in {c \in TextCases : c.text = None /\ c.line # None}}

\* The fields of the AgentRefinement outside the entities and links of its
\* restatement (lines 8-21 and 29-30): the analysis sections, run_id and the
\* flattened extras.
RestOfRefinement ==
    [leap_analysis |-> <<[link |-> Some(L1), bridging_proposal |-> <<E1>>]>>,
     suggested_edits |-> <<E1 \o Sp \o L1>>,
     quick_consistency_checks |-> <<L1>>,
     run_id |-> Some(<<"r">>),
     extra |-> <<>>,
     restatement_extra |-> <<>>]

\* ------------------------------------------------------------------ a whole run
\* The entity loop over a whole list, in a build whose arithmetic wraps.
RECURSIVE RunEntities(_, _, _)
RunEntities(ents, existing, st) ==
    IF ents = <<>> THEN st
    ELSE LET r == SanitizeEntity(st, Head(ents), existing, FALSE)
         IN  RunEntities(Tail(ents), existing,
                [used |-> r.used, next |-> r.next, mapping |-> r.mapping,
                 wrapped |-> st.wrapped \/ r.wrapped,
                 out |-> Append(st.out, r.entity)])

\* The link loop over a whole list, in a build whose arithmetic wraps.
RECURSIVE RunLinks(_, _, _, _, _)
RunLinks(lnks, mapping, order, known, st) ==
    IF lnks = <<>> THEN st
    ELSE LET r == SanitizeLinkId(st, Head(lnks), FALSE)
         IN  RunLinks(Tail(lnks), mapping, order, known,
                [used |-> r.used, next |-> r.next,
                 wrapped |-> st.wrapped \/ r.wrapped,
                 out |-> Append(st.out,
                            SanitizeLinkBody(Head(lnks), r.id, mapping, order, known))])

\* sanitize_entities_and_links on a proposal (ents, lnks) as one function of
\* its inputs and of the iteration order of id_mapping (an order of the keys
\* the entity loop records, which the inputs determine).
SanitizeWith(ents, lnks, existing_e, existing_l, order) ==
    LET e == RunEntities(ents, existing_e,
                [used |-> existing_e,
                 next |-> InitialIndex(existing_e, "E", FALSE).next,
                 wrapped |-> InitialIndex(existing_e, "E", FALSE).wrapped,
                 mapping |-> EmptyMap, out |-> <<>>])
        l == RunLinks(lnks, e.mapping, order, e.used,
                [used |-> existing_l,
                 next |-> InitialIndex(existing_l, "L", FALSE).next,
                 wrapped |-> InitialIndex(existing_l, "L", FALSE).wrapped,
                 out |-> <<>>])
    IN  [entities |-> e.out, links |-> l.out, wrapped |-> e.wrapped \/ l.wrapped]

\* The keys of the id_mapping the entity loop builds on a proposal.
MappingKeys(ents, existing_e) ==
    DOMAIN RunEntities(ents, existing_e,
                [used |-> existing_e,
                 next |-> InitialIndex(existing_e, "E", FALSE).next,
                 wrapped |-> FALSE,
                 mapping |-> EmptyMap, out |-> <<>>]).mapping

\* ------------------------------------------------------------------ state
VARIABLES
    pc,                    \* where the call to sanitize is
    existing_entity_ids,   \* argument
    existing_link_ids,     \* argument
    in_entities,           \* the proposal's entities as given, read so far
    in_links,              \* the proposal's links as given, read so far
    entities,              \* restatement.entities, as rewritten so far
    links,                 \* restatement.links, as rewritten so far
    used_ids, next_index, id_mapping, known_ids,
    used_link_ids, next_link_index,
    map_order,             \* the order in which id_mapping iterates
    wrapped,               \* an addition has wrapped (a build without checks)
    copy,                  \* the result of sanitizing a second copy
    again,                 \* the result of sanitizing the sanitized proposal
    refinement,            \* AgentRefinement: the fields outside the entities and links
    sections,              \* parse_crt: the entity and link lines of the file
    cursor,                \* parse_crt: how many of them the loop has consumed
    crt_entities,          \* parse_crt: the map `entities`
    crt_links,             \* parse_crt: the map `links`
    parse_result,          \* parse_crt: <<>> while running, then <<result>>
    flat_pc,               \* parse_content: where the flattening is
    graph_nodes,           \* parse_content: nodes_array
    graph_links,           \* parse_content: links_array
    source_terms,          \* parse_content: the BTreeSet source_terms
    target_terms,          \* parse_content: the BTreeSet target_terms
    flat_order,            \* parse_content: the links of crt.links.values()
    flat_index,            \* parse_content: how many of them the loop has seen
    wasm_links,            \* parse_content of src/src/wasm.rs: <<>>, then <<links_array>>
    expr_tokens,           \* ExprParser: tokens
    expr_result,           \* ExprParser::parse: <<>> before the call, then <<result>>
    expr_leaves,           \* flatten_expr: <<>> before the call, then <<leaves>>
    time_allocation,       \* TimeAllocation: <<>>, or the five values of a request
    time_ready,            \* is_time_allocation_valid: <<>>, then <<outcome>>
    time_validated         \* AnalyseRequest::validate: <<>>, then <<outcome>>

san_vars == <<pc, existing_entity_ids, existing_link_ids, in_entities, in_links,
              entities, links, used_ids, next_index, id_mapping, known_ids,
              used_link_ids, next_link_index, map_order, wrapped, copy, again, refinement>>

parse_vars == <<sections, cursor, crt_entities, crt_links, parse_result>>

flat_vars == <<flat_pc, graph_nodes, graph_links, source_terms, target_terms,
               flat_order, flat_index, wasm_links>>

expr_vars == <<expr_tokens, expr_result, expr_leaves>>

time_vars == <<time_allocation, time_ready, time_validated>>

vars == <<san_vars, parse_vars, flat_vars, expr_vars, time_vars>>

\* No flattening is under way.
FlatIdle ==
    /\ flat_pc = "idle"
    /\ graph_nodes = <<>>
    /\ graph_links = <<>>
    /\ source_terms = {}
    /\ target_terms = {}
    /\ flat_order = <<>>
    /\ flat_index = 0
    /\ wasm_links = <<>>

\* No expression parser is at work.
ExprIdle ==
    /\ expr_tokens = <<>>
    /\ expr_result = <<>>
    /\ expr_leaves = <<>>

\* No request is being checked.
TimeIdle ==
    /\ time_allocation = <<>>
    /\ time_ready = <<>>
    /\ time_validated = <<>>

\* No call of parse_crt is under way.
ParseIdle ==
    /\ sections = <<>>
    /\ cursor = 0
    /\ crt_entities = EmptyMap
    /\ crt_links = EmptyMap
    /\ parse_result = <<>>

\* No call of sanitize is under way.
SanIdle ==
    /\ pc = "idle"
    /\ existing_entity_ids = {}
    /\ existing_link_ids = {}
    /\ in_entities = <<>>
    /\ in_links = <<>>
    /\ entities = <<>>
    /\ links = <<>>
    /\ used_ids = {}
    /\ next_index = U32Zero
    /\ id_mapping = EmptyMap
    /\ known_ids = {}
    /\ used_link_ids = {}
    /\ next_link_index = U32Zero
    /\ map_order = <<>>
    /\ wrapped = FALSE
    /\ copy = <<>>
    /\ again = <<>>
    /\ refinement = <<>>

\* The builds that can still be the one running: once an addition has
\* wrapped, the build has no overflow checks.
Builds == IF wrapped THEN {FALSE} ELSE BOOLEAN

SanInit ==
    /\ pc = "start"
    /\ \E x \in ExistingPool :
        /\ existing_entity_ids = x.e
        /\ existing_link_ids = x.l
    /\ in_entities = <<>>
    /\ in_links = <<>>
    /\ entities = <<>>
    /\ links = <<>>
    /\ used_ids = {}
    /\ next_index = U32Zero
    /\ id_mapping = EmptyMap
    /\ known_ids = {}
    /\ used_link_ids = {}
    /\ next_link_index = U32Zero
    /\ map_order = <<>>
    /\ wrapped = FALSE
    /\ copy = <<>>
    /\ again = <<>>
    /\ refinement = <<RestOfRefinement>>
    /\ ParseIdle
    /\ FlatIdle
    /\ ExprIdle
    /\ TimeIdle

\* Lines 104-113.
SanStart ==
    /\ pc = "start"
    /\ \E checks \in Builds :
        LET r == InitialIndex(existing_entity_ids, "E", checks)
        IN  IF r.panic
            THEN /\ pc' = "panicked"
                 /\ UNCHANGED <<used_ids, next_index, wrapped>>
            ELSE /\ pc' = "entities"
                 /\ used_ids' = existing_entity_ids
                 /\ next_index' = r.next
                 /\ wrapped' = (wrapped \/ r.wrapped)
    /\ UNCHANGED <<parse_vars, flat_vars, expr_vars, time_vars>>
    /\ UNCHANGED <<existing_entity_ids, existing_link_ids, in_entities, in_links,
                   entities, links, id_mapping, known_ids, used_link_ids,
                   next_link_index, map_order, copy, again, refinement>>

\* Lines 115-142, one iteration, on the next entity of the proposal.
SanEntity ==
    /\ pc = "entities"
    /\ Len(in_entities) < MaxItems
    /\ \E entity \in EntityPool, checks \in Builds :
        LET r == SanitizeEntity(
                    [used |-> used_ids, next |-> next_index, mapping |-> id_mapping],
                    entity, existing_entity_ids, checks)
        IN  /\ in_entities' = Append(in_entities, entity)
            /\ IF r.panic
               THEN /\ pc' = "panicked"
                    /\ UNCHANGED <<entities, used_ids, next_index, id_mapping, wrapped>>
               ELSE /\ pc' = "entities"
                    /\ entities' = Append(entities, r.entity)
                    /\ used_ids' = r.used
                    /\ next_index' = r.next
                    /\ id_mapping' = r.mapping
                    /\ wrapped' = (wrapped \/ r.wrapped)
    /\ UNCHANGED <<parse_vars, flat_vars, expr_vars, time_vars>>
    /\ UNCHANGED <<existing_entity_ids, existing_link_ids, in_links, links,
                   known_ids, used_link_ids, next_link_index, map_order, copy, again, refinement>>

\* Lines 144-153, after the last entity.
SanLinkSetup ==
    /\ pc = "entities"
    /\ \E checks \in Builds, order \in Orders(DOMAIN id_mapping) :
        LET r == InitialIndex(existing_link_ids, "L", checks)
        IN  IF r.panic
            THEN /\ pc' = "panicked"
                 /\ UNCHANGED <<known_ids, used_link_ids, next_link_index,
                                map_order, wrapped>>
            ELSE /\ pc' = "links"
                 /\ known_ids' = used_ids
                 /\ used_link_ids' = existing_link_ids
                 /\ next_link_index' = r.next
                 /\ map_order' = order
                 /\ wrapped' = (wrapped \/ r.wrapped)
    /\ UNCHANGED <<parse_vars, flat_vars, expr_vars, time_vars>>
    /\ UNCHANGED <<existing_entity_ids, existing_link_ids, in_entities, in_links,
                   entities, links, used_ids, next_index, id_mapping, copy, again, refinement>>

\* Lines 155-291, one iteration, on the next link of the proposal.
SanLink ==
    /\ pc = "links"
    /\ Len(in_entities) + Len(in_links) < MaxItems
    /\ \E link \in LinkPool, checks \in Builds :
        LET r == SanitizeLinkId([used |-> used_link_ids, next |-> next_link_index],
                                link, checks)
        IN  /\ in_links' = Append(in_links, link)
            /\ IF r.panic
               THEN /\ pc' = "panicked"
                    /\ UNCHANGED <<links, used_link_ids, next_link_index, wrapped>>
               ELSE /\ pc' = "links"
                    /\ links' = Append(links,
                            SanitizeLinkBody(link, r.id, id_mapping, map_order, known_ids))
                    /\ used_link_ids' = r.used
                    /\ next_link_index' = r.next
                    /\ wrapped' = (wrapped \/ r.wrapped)
    /\ UNCHANGED <<parse_vars, flat_vars, expr_vars, time_vars>>
    /\ UNCHANGED <<existing_entity_ids, existing_link_ids, in_entities, entities,
                   used_ids, next_index, id_mapping, known_ids, map_order, copy, again, refinement>>

\* Line 292: the call returns after the last link.
SanReturn ==
    /\ pc = "links"
    /\ pc' = "done"
    /\ UNCHANGED <<parse_vars, flat_vars, expr_vars, time_vars>>
    /\ UNCHANGED <<existing_entity_ids, existing_link_ids, in_entities, in_links,
                   entities, links, used_ids, next_index, id_mapping, known_ids,
                   used_link_ids, next_link_index, map_order, wrapped, copy, again, refinement>>

\* A second call of sanitize, on a copy of the same proposal with the same
\* id sets; its id_mapping is another HashMap, with an iteration order of its
\* own.
SanSecondCopy ==
    /\ pc = "done"
    /\ \E order \in Orders(DOMAIN id_mapping) :
        copy' = <<SanitizeWith(in_entities, in_links, existing_entity_ids,
                               existing_link_ids, order)>>
    /\ pc' = "compared"
    /\ UNCHANGED <<parse_vars, flat_vars, expr_vars, time_vars>>
    /\ UNCHANGED <<existing_entity_ids, existing_link_ids, in_entities, in_links,
                   entities, links, used_ids, next_index, id_mapping, known_ids,
                   used_link_ids, next_link_index, map_order, wrapped,
                   again, refinement>>

\* A second call of sanitize, on the proposal the first call has sanitized,
\* with the same id sets.  In a build with overflow checks the call panics
\* where the other build wraps.
SanAgain ==
    /\ pc = "done"
    /\ \E order \in Orders(MappingKeys(entities, existing_entity_ids)),
          checks \in Builds :
        LET r == SanitizeWith(entities, links, existing_entity_ids,
                              existing_link_ids, order)
        IN  again' = <<[panic |-> r.wrapped /\ checks,
                        entities |-> r.entities, links |-> r.links]>>
    /\ pc' = "resanitized"
    /\ UNCHANGED <<parse_vars, flat_vars, expr_vars, time_vars>>
    /\ UNCHANGED <<existing_entity_ids, existing_link_ids, in_entities, in_links,
                   entities, links, used_ids, next_index, id_mapping, known_ids,
                   used_link_ids, next_link_index, map_order, wrapped, copy,
                   refinement>>

SanNext ==
    \/ SanStart
    \/ SanEntity
    \/ SanLinkSetup
    \/ SanLink
    \/ SanReturn
    \/ SanSecondCopy
    \/ SanAgain

SpecSanitize == SanInit /\ [][SanNext]_vars


\* C17: a link flagged added always ends with a fresh id L<n>, one that is
\* not in existing_link_ids and not the id of a link processed earlier in the
\* proposal, also when its proposed id was a valid unused L<digits>; a
\* non-added link with an invalid id is renamed to such a fresh id; a
\* non-added link with a valid L<digits> id keeps its id.
C17_AddedLinksGetFreshIds ==
    \A i \in 1..Len(links) :
        LET fresh == /\ valid_link_regex(links[i].id)
                     /\ links[i].id \notin existing_link_ids
                     /\ \A j \in 1..(i - 1) : links[j].id # links[i].id
        IN  /\ in_links[i].added => fresh
            /\ (~in_links[i].added /\ ~valid_link_regex(in_links[i].id)) => fresh
            /\ (~in_links[i].added /\ valid_link_regex(in_links[i].id))
                    => links[i].id = in_links[i].id

\* A call that returned after a kept L1, an added link proposed as the
\* unused L9 and a link with an invalid id: the added link is not L9 but the
\* next free id, and the invalid one got the id after it.
C17_Witness ==
    /\ pc = "done"
    /\ Len(links) = 3
    /\ in_links[1].id = L1 /\ ~in_links[1].added /\ links[1].id = L1
    /\ in_links[2].id = L9 /\ in_links[2].added
    /\ L9 \notin existing_link_ids
    /\ links[2].id = <<"L", "2">>
    /\ in_links[3].id = LX
    /\ links[3].id = <<"L", "3">>

\* The position of the first occurrence of x in seq (0 when there is none).
FirstIndex(seq, x) ==
    IF \E i \in 1..Len(seq) : seq[i] = x
    THEN CHOOSE i \in 1..Len(seq) : seq[i] = x /\ \A j \in 1..(i - 1) : seq[j] # x
    ELSE 0

\* out has no repeated element and lists elements of seen in the order in
\* which seen first shows them.
InFirstSeenOrder(out, seen) ==
    /\ \A p, q \in 1..Len(out) : p # q => out[p] # out[q]
    /\ \A p \in 1..Len(out) : FirstIndex(seen, out[p]) > 0
    /\ \A p, q \in 1..Len(out) :
        p < q => FirstIndex(seen, out[p]) < FirstIndex(seen, out[q])

\* The ids of a proposed list after the renaming of entities.
MappedIds(list) ==
    [k \in 1..Len(list) |->
        IF list[k] \in DOMAIN id_mapping THEN id_mapping[list[k]] ELSE list[k]]

\* C18: after sanitize a non-null from is in source_entities and in entities,
\* a non-null to is in target_entities and in entities; entities,
\* source_entities and target_entities have no repeated id and keep the
\* first-seen order of the retained ids (the list as proposed, then the
\* accepted from, then the accepted to).
C18_FromToBackFilledAndDeduplicated ==
    \A i \in 1..Len(links) :
        LET l == links[i]
            p == in_links[i]
        IN  /\ l.from # None =>
                l.from[1] \in {l.source_entities[k] : k \in 1..Len(l.source_entities)}
                             \cap {l.entities[k] : k \in 1..Len(l.entities)}
            /\ l.to # None =>
                l.to[1] \in {l.target_entities[k] : k \in 1..Len(l.target_entities)}
                           \cap {l.entities[k] : k \in 1..Len(l.entities)}
            /\ InFirstSeenOrder(l.entities, MappedIds(p.entities) \o l.from \o l.to)
            /\ InFirstSeenOrder(l.source_entities, MappedIds(p.source_entities) \o l.from)
            /\ InFirstSeenOrder(l.target_entities, MappedIds(p.target_entities) \o l.to)

\* A call that returned a link proposed with from E2, entities [E1, E1] and
\* source_entities [E1, E2, E1]: both lists are now [E1, E2], from is E2.
C18_Witness ==
    /\ pc = "done"
    /\ \E i \in 1..Len(links) :
        /\ in_links[i].entities = <<E1, E1>>
        /\ in_links[i].source_entities = <<E1, E2, E1>>
        /\ links[i].from = Some(E2)
        /\ links[i].entities = <<E1, E2>>
        /\ links[i].source_entities = <<E1, E2>>

\* The part of s after its first '.', or all of s when it has none.
AfterFirstDot(s) ==
    IF \E i \in 1..Len(s) : s[i] = "."
    THEN LET d == CHOOSE i \in 1..Len(s) : s[i] = "." /\ \A j \in 1..(i - 1) : s[j] # "."
         IN  SubSeq(s, d + 1, Len(s))
    ELSE s

\* C19: after sanitize every link that has a line has it equal to
\* "<final link id>. " followed by the link's rewritten text field when the
\* link has a text, and otherwise by the trimmed content of its previous line
\* (as the id mapping left it) after the first '.', the whole previous line
\* when it has no '.'; so the line starts with the id the link ends up with.
C19_LineCarriesFinalId ==
    \A i \in 1..Len(links) :
        LET l == links[i]
            p == in_links[i]
            head == l.id \o <<".", " ">>
        IN  l.line # None =>
                /\ SubSeq(l.line[1], 1, Len(head)) = head
                /\ IF p.text # None
                   THEN l.text # None /\ l.line[1] = head \o l.text[1]
                   ELSE /\ p.line # None
                        /\ l.line[1] = head \o
                            Trim(AfterFirstDot(apply_mapping(p.line[1], id_mapping, map_order)))

\* A call that returned an added link proposed as L9 with the line
\* "L9. E1 " and no text: its id is another one and its line is
\* "<that id>. E1".
C19_Witness ==
    /\ pc = "done"
    /\ \E i \in 1..Len(links) :
        /\ in_links[i].id = L9
        /\ in_links[i].text = None
        /\ in_links[i].line = Some(L9 \o <<".">> \o Sp \o E1 \o Sp)
        /\ links[i].id # L9
        /\ links[i].line = Some(links[i].id \o <<".">> \o Sp \o E1)

\* A call that returned a link with a text and a line without '.': the line
\* is the id and the text.
C19_TextWinsReached ==
    /\ pc = "done"
    /\ \E i \in 1..Len(links) :
        /\ in_links[i].line = Some(E1)
        /\ in_links[i].text # None
        /\ links[i].line = Some(links[i].id \o <<".", " ">> \o links[i].text[1])

\* C25: sanitize changes only the ids of the restatement's entities and, for
\* its links, the id, entities, source_entities, target_entities, from, to,
\* text, line and expressions; the analysis sections, run_id, every other
\* field, and the number and order of the entities and of the links are
\* unchanged.
C25_OnlyIdsAndReferencesChange ==
    pc # "idle" =>
        /\ refinement = <<RestOfRefinement>>
        /\ Len(entities) <= Len(in_entities)
        /\ Len(links) <= Len(in_links)
        /\ pc \in {"done", "compared", "resanitized"} =>
                (Len(entities) = Len(in_entities) /\ Len(links) = Len(in_links))
        /\ \A i \in 1..Len(entities) :
                entities[i] = [in_entities[i] EXCEPT !.id = entities[i].id]
        /\ \A i \in 1..Len(links) :
                links[i] = [in_links[i] EXCEPT
                                !.id = links[i].id,
                                !.entities = links[i].entities,
                                !.source_entities = links[i].source_entities,
                                !.target_entities = links[i].target_entities,
                                !.from = links[i].from,
                                !.to = links[i].to,
                                !.text = links[i].text,
                                !.line = links[i].line,
                                !.expressions = links[i].expressions]

\* A proposal of two entities and a link was sanitized: the added entity was
\* renamed and the link rewritten, texts, flags and order as they were.
C25_Witness ==
    /\ pc = "done"
    /\ Len(entities) = 2
    /\ Len(links) = 1
    /\ in_entities[1].added # in_entities[2].added
    /\ \E i \in 1..2 : entities[i].id # in_entities[i].id
    /\ \A i \in 1..2 : /\ entities[i].text = in_entities[i].text
                         /\ entities[i].added = in_entities[i].added
    /\ links[1] # in_links[1]
    /\ links[1].added = in_links[1].added
    /\ links[1].kind = in_links[1].kind

\* The proposed ids that some entity of the proposal keeps.
KeptIds == {in_entities[i].id : i \in {j \in 1..Len(entities) : entities[j].id = in_entities[j].id}}

\* C26: after sanitize, a link reference (in entities, source_entities,
\* target_entities, from or to) whose original value is the id that some
\* entity of the proposal keeps unchanged still has that value, also when
\* another entity of the same proposal had the same proposed id and was
\* renamed.
C26_ReferencesToKeptIdsStay ==
    pc = "done" =>
        \A i \in 1..Len(links) : \A id \in KeptIds :
            /\ in_links[i].from = Some(id) => links[i].from = Some(id)
            /\ in_links[i].to = Some(id) => links[i].to = Some(id)
            /\ id \in Range(in_links[i].entities) => id \in Range(links[i].entities)
            /\ id \in Range(in_links[i].source_entities) =>
                    id \in Range(links[i].source_entities)
            /\ id \in Range(in_links[i].target_entities) =>
                    id \in Range(links[i].target_entities)

\* What the code keeps instead: the references to a kept id that no renamed
\* entity of the proposal had as its proposed id.
C26_UnshadowedReferencesStay ==
    pc = "done" =>
        \A i \in 1..Len(links) : \A id \in KeptIds \ DOMAIN id_mapping :
            /\ in_links[i].from = Some(id) => links[i].from = Some(id)
            /\ in_links[i].to = Some(id) => links[i].to = Some(id)
            /\ id \in Range(in_links[i].entities) => id \in Range(links[i].entities)
            /\ id \in Range(in_links[i].source_entities) =>
                    id \in Range(links[i].source_entities)
            /\ id \in Range(in_links[i].target_entities) =>
                    id \in Range(links[i].target_entities)

\* With E1 existing, the proposal E1, E1 (added) and a link from E1 was
\* sanitized: the first entity keeps E1, the second becomes E2, and the
\* link's from is E2.
C26_ReferenceRewrittenReached ==
    /\ pc = "done"
    /\ existing_entity_ids = {E1}
    /\ Len(in_entities) = 2
    /\ in_entities[1] = [id |-> E1, text |-> EntityText, added |-> FALSE]
    /\ in_entities[2] = [id |-> E1, text |-> EntityText, added |-> TRUE]
    /\ entities[1].id = E1
    /\ entities[2].id = E2
    /\ Len(links) = 1
    /\ in_links[1].from = Some(E1)
    /\ links[1].from = Some(E2)

\* C28: sanitize is idempotent: applied a second time, with the same
\* existing_entity_ids and existing_link_ids, to a proposal it has already
\* sanitized, it leaves every entity id, every link id, every link's
\* reference lists, from, to, line and expressions unchanged.
C28_SanitizeIsIdempotent ==
    pc = "resanitized" =>
        LET r == again[1]
        IN  /\ ~r.panic
            /\ Len(r.entities) = Len(entities)
            /\ Len(r.links) = Len(links)
            /\ \A i \in 1..Len(entities) : r.entities[i].id = entities[i].id
            /\ \A i \in 1..Len(links) :
                /\ r.links[i].id = links[i].id
                /\ r.links[i].entities = links[i].entities
                /\ r.links[i].source_entities = links[i].source_entities
                /\ r.links[i].target_entities = links[i].target_entities
                /\ r.links[i].from = links[i].from
                /\ r.links[i].to = links[i].to
                /\ r.links[i].line = links[i].line
                /\ r.links[i].expressions = links[i].expressions

\* A proposal whose first call renamed an entity, gave a link a fresh id and
\* rewrote its line was sanitized again.
C28_Witness ==
    /\ pc = "resanitized"
    /\ \E i \in 1..Len(entities) : entities[i].id # in_entities[i].id
    /\ \E i \in 1..Len(links) :
        /\ in_links[i].added
        /\ links[i].id # in_links[i].id
        /\ links[i].line # None
        /\ links[i].line # in_links[i].line
        /\ again[1].links[i] = links[i]

\* ------------------------------------------------------------------ lexer
Letters ==
    {"a", "b", "c", "d", "e", "f", "g", "h", "i", "j", "k", "l", "m",
     "n", "o", "p", "q", "r", "s", "t", "u", "v", "w", "x", "y", "z",
     "A", "B", "C", "D", "E", "F", "G", "H", "I", "J", "K", "L", "M",
     "N", "O", "P", "Q", "R", "S", "T", "U", "V", "W", "X", "Y", "Z"}

\* The longest prefix of s whose characters are all in set.
RECURSIVE TakeWhile(_, _)
TakeWhile(s, set) ==
    IF s # <<>> /\ Head(s) \in set THEN <<Head(s)>> \o TakeWhile(Tail(s), set)
    ELSE <<>>

\* str::eq_ignore_ascii_case against an upper-case keyword.
EqIgnoreCase(buf, keyword) ==
    LET upper(c) ==
            CASE c = "n" -> "N" [] c = "o" -> "O" [] c = "t" -> "T"
              [] c = "a" -> "A" [] c = "d" -> "D" [] OTHER -> c
    IN  /\ Len(buf) = Len(keyword)
        /\ \A i \in 1..Len(buf) : upper(buf[i]) = keyword[i]

Tok(t) == [t |-> t, id |-> U32Zero]

TokEntity(id) == [t |-> "Entity", id |-> id]

\* tokenize_expr (lines 90-165).  Result: [ok, tokens].
RECURSIVE tokenize_expr(_)
tokenize_expr(input) ==
    LET fail == [ok |-> FALSE, tokens |-> <<>>]
        push(tok, rest) ==
            LET r == tokenize_expr(rest)
            IN  IF r.ok THEN [ok |-> TRUE, tokens |-> <<tok>> \o r.tokens] ELSE fail
        word == TakeWhile(input, Letters)
        digits == TakeWhile(Tail(input), Digits)
    IN  IF input = <<>> THEN [ok |-> TRUE, tokens |-> <<>>]
        ELSE IF IsSpace(Head(input)) THEN tokenize_expr(Tail(input))
        ELSE IF Head(input) = "(" THEN push(Tok("LParen"), Tail(input))
        ELSE IF Head(input) = ")" THEN push(Tok("RParen"), Tail(input))
        ELSE IF Head(input) \in {"N", "n"}
        THEN IF EqIgnoreCase(word, <<"N", "O", "T">>)
             THEN push(Tok("Not"), Drop(input, Len(word)))
             ELSE fail
        ELSE IF Head(input) \in {"A", "a"}
        THEN IF EqIgnoreCase(word, <<"A", "N", "D">>)
             THEN push(Tok("And"), Drop(input, Len(word)))
             ELSE fail
        ELSE IF Head(input) \in {"E", "e"}
        THEN IF digits = <<>> \/ ParseU32(digits) = <<>> THEN fail
             ELSE push(TokEntity(ParseU32(digits)[1]), Drop(input, 1 + Len(digits)))
        ELSE fail

\* ------------------------------------------------------------------ expression parser
EntityRef(id) == [k |-> "EntityRef", id |-> id, args |-> <<>>]

Not(e) == [k |-> "Not", id |-> U32Zero, args |-> <<e>>]

And(es) == [k |-> "And", id |-> U32Zero, args |-> es]

\* ExprParser::peek: the kind of the token at pos (0-based), "" past the end.
Peek(tokens, pos) == IF pos < Len(tokens) THEN tokens[pos + 1].t ELSE ""

ExprErr(pos) == [ok |-> FALSE, expr |-> EntityRef(U32Zero), pos |-> pos]

ExprOk(e, pos) == [ok |-> TRUE, expr |-> e, pos |-> pos]

RECURSIVE parse_and(_, _)
RECURSIVE parse_and_more(_, _, _)
RECURSIVE parse_not(_, _)
RECURSIVE parse_primary(_, _)

\* ExprParser::parse_primary (lines 207-228).
parse_primary(tokens, pos) ==
    IF Peek(tokens, pos) = "Entity"
    THEN ExprOk(EntityRef(tokens[pos + 1].id), pos + 1)
    ELSE IF Peek(tokens, pos) = "LParen"
    THEN LET r == parse_and(tokens, pos + 1)
         IN  IF ~r.ok THEN r
             ELSE IF Peek(tokens, r.pos) = "RParen" THEN ExprOk(r.expr, r.pos + 1)
             ELSE ExprErr(r.pos)
    ELSE ExprErr(pos)

\* A parse_not whose NOT takes the whole conjunction that follows.
parse_not_weak(tokens, pos) ==
    IF Peek(tokens, pos) = "Not"
    THEN LET r == parse_and(tokens, pos + 1)
         IN  IF r.ok THEN ExprOk(Not(r.expr), r.pos) ELSE r
    ELSE parse_primary(tokens, pos)

\* ExprParser::parse_not (lines 198-205).
parse_not(tokens, pos) ==
    IF Peek(tokens, pos) = "Not"
    THEN LET r == parse_not(tokens, pos + 1)
         IN  IF r.ok THEN ExprOk(Not(r.expr), r.pos) ELSE r
    ELSE parse_primary(tokens, pos)

\* A loop that wraps a single conjunct in an And node as well.
RECURSIVE parse_and_more_wrap(_, _, _)
parse_and_more_wrap(tokens, pos, exprs) ==
    IF Peek(tokens, pos) = "And"
    THEN LET r == parse_not(tokens, pos + 1)
         IN  IF r.ok THEN parse_and_more_wrap(tokens, r.pos, Append(exprs, r.expr)) ELSE r
    ELSE ExprOk(And(exprs), pos)

\* The while loop of parse_and (lines 187-190); exprs collects the conjuncts.
parse_and_more(tokens, pos, exprs) ==
    IF Peek(tokens, pos) = "And"
    THEN LET r == parse_not(tokens, pos + 1)
         IN  IF r.ok THEN parse_and_more(tokens, r.pos, Append(exprs, r.expr)) ELSE r
    ELSE ExprOk(IF Len(exprs) = 1 THEN exprs[1] ELSE And(exprs), pos)

\* ExprParser::parse_and (lines 185-196).
parse_and(tokens, pos) ==
    LET r == parse_not(tokens, pos)
    IN  IF r.ok THEN parse_and_more(tokens, r.pos, <<r.expr>>) ELSE r

\* A parse that does not look at what follows the expression.
ExprParser_parse_lenient(tokens) == parse_and(tokens, 0)

\* ExprParser::parse (lines 177-183): the whole stream must be consumed.
ExprParser_parse(tokens) ==
    LET r == parse_and(tokens, 0)
    IN  IF r.ok /\ Peek(tokens, r.pos) # "" THEN ExprErr(r.pos) ELSE r

\* parse_expr (lines 336-349): cut a trailing // comment, trim, tokenize and
\* parse.
parse_expr(text) ==
    LET cut  == FindFirst(text, <<"/", "/">>)
        body == Trim(IF cut = 0 THEN text ELSE SubSeq(text, 1, cut - 1))
        toks == tokenize_expr(body)
    IN  IF body = <<>> \/ ~toks.ok THEN ExprErr(0)
        ELSE ExprParser_parse(toks.tokens)

\* ------------------------------------------------------------------ document parser
\* A section of the file as the grammar hands it over: its rule and the text
\* of its ID, text and expr parts.
EntityLine(id, text) ==
    [rule |-> "entity_line", id |-> id, text |-> text, exprs |-> <<>>]

LinkLine(id, exprs) ==
    [rule |-> "link_line", id |-> id, text |-> <<>>, exprs |-> exprs]

\* Result<CRT>: the outcome, the ids an error message carries, and the tree.
ParseOk(es, ls) ==
    [kind |-> "Ok", link |-> U32Zero, entity |-> U32Zero,
     tree |-> <<[entities |-> es, links |-> ls]>>]

ParseErr(kind, link, entity) ==
    [kind |-> kind, link |-> link, entity |-> entity, tree |-> <<>>]

\* A parse_entity_line that keeps the text as written.
parse_entity_line_untrimmed(p) ==
    LET id == ParseU32(p.id)
    IN  IF id = <<>> THEN [ok |-> FALSE, kind |-> "InvalidId", id |-> U32Zero, text |-> <<>>]
        ELSE IF Trim(p.text) = <<>>
        THEN [ok |-> FALSE, kind |-> "EmptyText", id |-> id[1], text |-> <<>>]
        ELSE [ok |-> TRUE, kind |-> "Ok", id |-> id[1], text |-> p.text]

\* parse_entity_line (lines 290-308).
parse_entity_line(p) ==
    LET id   == ParseU32(p.id)
        text == Trim(p.text)
    IN  IF id = <<>> THEN [ok |-> FALSE, kind |-> "InvalidId", id |-> U32Zero, text |-> <<>>]
        ELSE IF text = <<>>
        THEN [ok |-> FALSE, kind |-> "EmptyText", id |-> id[1], text |-> <<>>]
        ELSE [ok |-> TRUE, kind |-> "Ok", id |-> id[1], text |-> text]

\* A loop over the expr parts that passes over the expressions that fail.
RECURSIVE parse_segments_skipping(_)
parse_segments_skipping(exprs) ==
    IF exprs = <<>> THEN <<<<>>>>
    ELSE LET r    == parse_expr(Head(exprs))
             rest == parse_segments_skipping(Tail(exprs))
         IN  IF ~r.ok THEN rest ELSE <<<<r.expr>> \o rest[1]>>

\* The loop of parse_link_line over the expr parts (lines 330-332): the
\* segments parsed so far, or <<>> at the first expression that fails.
RECURSIVE parse_segments(_)
parse_segments(exprs) ==
    IF exprs = <<>> THEN <<<<>>>>
    ELSE LET r == parse_expr(Head(exprs))
         IN  IF ~r.ok THEN <<>>
             ELSE LET rest == parse_segments(Tail(exprs))
                  IN  IF rest = <<>> THEN <<>> ELSE <<<<r.expr>> \o rest[1]>>

\* parse_link_line (lines 310-334).
parse_link_line(p) ==
    LET id   == ParseU32(p.id)
        segs == parse_segments(p.exprs)
        fail(kind) == [ok |-> FALSE, kind |-> kind, id |-> U32Zero, segments |-> <<>>]
    IN  IF id = <<>> THEN fail("InvalidId")
        ELSE IF Len(p.exprs) < 2 THEN fail("MalformedLink")
        ELSE IF segs = <<>> THEN fail("MalformedExpression")
        ELSE [ok |-> TRUE, kind |-> "Ok", id |-> id[1], segments |-> segs[1]]

\* collect of validate_refs (lines 352-358): the referenced ids, in order.
RECURSIVE collect(_)
RECURSIVE collect_all(_)
collect(expr) ==
    IF expr.k = "EntityRef" THEN <<expr.id>> ELSE collect_all(expr.args)

collect_all(exprs) ==
    IF exprs = <<>> THEN <<>> ELSE collect(Head(exprs)) \o collect_all(Tail(exprs))

\* BTreeMap::values: the keys in ascending order.
RECURSIVE SortedKeys(_)
SortedKeys(S) ==
    IF S = {} THEN <<>>
    ELSE LET least == CHOOSE m \in S : \A x \in S : ~U32Less(x, m)
         IN  <<least>> \o SortedKeys(S \ {least})

\* The first id of ids that the map ents does not hold, as <<>> or <<id>>.
RECURSIVE FirstMissing(_, _)
FirstMissing(ids, ents) ==
    IF ids = <<>> THEN <<>>
    ELSE IF Head(ids) \notin DOMAIN ents THEN <<Head(ids)>>
    ELSE FirstMissing(Tail(ids), ents)

RECURSIVE validate_links(_, _, _)
validate_links(order, ents, lnks) ==
    IF order = <<>> THEN <<>>
    ELSE LET missing == FirstMissing(collect_all(lnks[Head(order)]), ents)
         IN  IF missing # <<>> THEN <<[link |-> Head(order), entity |-> missing[1]]>>
             ELSE validate_links(Tail(order), ents, lnks)

\* A validation that accepts every reference.
validate_refs_unchecked(ents, lnks) == <<>>

\* validate_refs (lines 351-375): <<>> for Ok, else the link and the entity
\* of the error.
validate_refs(ents, lnks) ==
    validate_links(SortedKeys(DOMAIN lnks), ents, lnks)

\* An insert that never finds the key taken.
insert_is_some_never(map, id) == FALSE

\* BTreeMap::insert(id, ..).is_some() (lines 268 and 275).
insert_is_some(map, id) == id \in DOMAIN map

\* ------------------------------------------------------------------ documents
\* The ID parts: digits, one of them beyond 32 bits.
Id1 == <<"1">>
Id2 == <<"2">>
IdBig == <<"4", "2", "9", "4", "9", "6", "7", "2", "9", "6">>

\* The expr parts.
RefE1 == <<"E", "1">>
RefE2 == <<"E", "2", " ">>
NotE2 == <<"N", "O", "T", " ", "E", "2">>
E1AndE2 == <<"(", "E", "1", " ", "a", "n", "d", " ", "E", "2", ")", " ", "/", "/", "x">>
TwoRefs == <<"E", "1", " ", "E", "2">>

\* Entity lines `E<digits>. <text>`; link lines
\* `L<digits>. <expr> (→ <expr>)+`.
LinePool ==
    { EntityLine(Id1, <<"a">>),
      EntityLine(Id1, <<"b", " ">>),
      EntityLine(Id2, <<"a">>),
      EntityLine(Id1, <<" ">>),
      EntityLine(IdBig, <<"a">>),
      LinkLine(Id1, <<RefE1, RefE2>>),
      LinkLine(Id1, <<RefE1, RefE1>>),
      LinkLine(Id2, <<RefE1, RefE1>>),
      LinkLine(Id2, <<NotE2, RefE1, E1AndE2>>),
      LinkLine(Id2, <<TwoRefs, RefE1>>),
      LinkLine(IdBig, <<RefE1, RefE1>>) }

\* The files: up to MaxLines entity and link lines.
Docs == UNION {[1..n -> LinePool] : n \in 0..MaxLines}

\* ------------------------------------------------------------------ parse_crt
ParseInit ==
    /\ sections \in Docs
    /\ cursor = 0
    /\ crt_entities = EmptyMap
    /\ crt_links = EmptyMap
    /\ parse_result = <<>>
    /\ SanIdle
    /\ FlatIdle
    /\ ExprIdle
    /\ TimeIdle

\* One turn of the loop of parse_crt on an entity line (lines 266-271).
ParseEntityLine ==
    /\ parse_result = <<>>
    /\ cursor < Len(sections)
    /\ sections[cursor + 1].rule = "entity_line"
    /\ LET r == parse_entity_line(sections[cursor + 1])
       IN  IF ~r.ok
           THEN /\ parse_result' = <<ParseErr(r.kind, U32Zero, r.id)>>
                /\ UNCHANGED <<cursor, crt_entities>>
           ELSE IF insert_is_some(crt_entities, r.id)
           THEN /\ parse_result' = <<ParseErr("DuplicateEntity", U32Zero, r.id)>>
                /\ crt_entities' = MapInsert(crt_entities, r.id, r.text)
                /\ UNCHANGED cursor
           ELSE /\ crt_entities' = MapInsert(crt_entities, r.id, r.text)
                /\ cursor' = cursor + 1
                /\ UNCHANGED parse_result
    /\ UNCHANGED <<sections, crt_links>>
    /\ UNCHANGED <<san_vars, flat_vars, expr_vars, time_vars>>

\* One turn of the loop of parse_crt on a link line (lines 272-278).
ParseLinkLine ==
    /\ parse_result = <<>>
    /\ cursor < Len(sections)
    /\ sections[cursor + 1].rule = "link_line"
    /\ LET r == parse_link_line(sections[cursor + 1])
       IN  IF ~r.ok
           THEN /\ parse_result' = <<ParseErr(r.kind, U32Zero, U32Zero)>>
                /\ UNCHANGED <<cursor, crt_links>>
           ELSE IF insert_is_some(crt_links, r.id)
           THEN /\ parse_result' = <<ParseErr("DuplicateLink", r.id, U32Zero)>>
                /\ crt_links' = MapInsert(crt_links, r.id, r.segments)
                /\ UNCHANGED cursor
           ELSE /\ crt_links' = MapInsert(crt_links, r.id, r.segments)
                /\ cursor' = cursor + 1
                /\ UNCHANGED parse_result
    /\ UNCHANGED <<sections, crt_entities>>
    /\ UNCHANGED <<san_vars, flat_vars, expr_vars, time_vars>>

\* The end of parse_crt (lines 284-286): validate_refs, then the tree.
ParseValidate ==
    /\ parse_result = <<>>
    /\ cursor = Len(sections)
    /\ LET v == validate_refs(crt_entities, crt_links)
       IN  parse_result' =
               IF v = <<>> THEN <<ParseOk(crt_entities, crt_links)>>
               ELSE <<ParseErr("UndefinedEntityReference", v[1].link, v[1].entity)>>
    /\ UNCHANGED <<sections, cursor, crt_entities, crt_links>>
    /\ UNCHANGED <<san_vars, flat_vars, expr_vars, time_vars>>

ParseNext ==
    \/ ParseEntityLine
    \/ ParseLinkLine
    \/ ParseValidate

SpecParse == ParseInit /\ [][ParseNext]_vars

\* ------------------------------------------------------------------ properties
\* The ids the proposal's entities end up with.
FinalEntityIds == {entities[j].id : j \in 1..Len(entities)}

\* used_ids when the i-th entity is reached, in terms of the inputs and the
\* results: the caller's ids and the final ids of the entities before it.
UsedBefore(i) == existing_entity_ids \cup {entities[j].id : j \in 1..(i - 1)}

EntityId(v) == <<"E">> \o FormatU32(v)

RECURSIVE AllUsedBetween(_, _, _)
AllUsedBetween(a, v, used) ==
    IF a = v THEN TRUE
    ELSE EntityId(a) \in used /\ AllUsedBetween(U32WrappingInc(a), v, used)

\* id is E<k> for the smallest number k >= m + 1 such that E<k> is not in
\* used.  No 32-bit k exists when m is u32::MAX.
IsSmallestUnusedFrom(id, m, used) ==
    /\ valid_entity_regex(id)
    /\ ParseU32(Tail(id)) # <<>>
    /\ m # U32Max
    /\ LET v == ParseU32(Tail(id))[1]
       IN  /\ id = EntityId(v)
           /\ ~U32Less(v, U32WrappingInc(m))
           /\ id \notin used
           /\ AllUsedBetween(U32WrappingInc(m), v, used)

\* C1: an added entity whose proposed id is in existing_entity_ids is renamed
\* to E<k>, k the smallest number at or above (largest numeric suffix of the
\* existing ids) + 1 whose id is not yet used, and its final id is not in
\* existing_entity_ids.
C1_AddedEntityGetsNextUnusedId ==
    \A i \in 1..Len(entities) :
        (in_entities[i].added /\ in_entities[i].id \in existing_entity_ids) =>
            /\ IsSmallestUnusedFrom(entities[i].id,
                    U32MaxOf(Suffixes(existing_entity_ids, "E")), UsedBefore(i))
            /\ entities[i].id \notin existing_entity_ids

\* The same statement for the calls in which no addition has overflowed.
C1_HoldsWithoutOverflow == wrapped \/ C1_AddedEntityGetsNextUnusedId

\* The example of the claim: existing ids {E1, E2}, one added entity E1,
\* renamed to E3.
C1_Example ==
    (/\ existing_entity_ids = {E1, E2}
     /\ Len(in_entities) = 1
     /\ in_entities[1].id = E1
     /\ in_entities[1].added) => entities[1].id = E3

C1_ExampleReached ==
    /\ pc = "done"
    /\ existing_entity_ids = {E1, E2}
    /\ Len(in_entities) = 1
    /\ in_entities[1].id = E1
    /\ in_entities[1].added
    /\ entities[1].id = E3

\* The reference lists of a link, and its scalar references.
ListFields == {"entities", "source_entities", "target_entities"}

ScalarFields == {"from", "to"}

Elems(seq) == {seq[i] : i \in 1..Len(seq)}

\* C2: after sanitize every id in a link's entities, source_entities and
\* target_entities and every non-null from/to has the shape E<digits> and is
\* in existing_entity_ids or is the final id of an entity of the proposal;
\* other references are gone (from/to null).
C2_ReferencesResolve ==
    \A i \in 1..Len(links) :
        LET ok(id) == /\ valid_entity_regex(id)
                      /\ id \in existing_entity_ids \cup FinalEntityIds
        IN  /\ \A f \in ListFields : \A id \in Elems(links[i][f]) : ok(id)
            /\ \A f \in ScalarFields : \A id \in Elems(links[i][f]) : ok(id)
            /\ \A f \in ListFields : \A id \in Elems(in_links[i][f]) :
                    (id \notin DOMAIN id_mapping /\ ~ok(id)) =>
                        id \notin Elems(links[i][f])
            /\ \A f \in ScalarFields : \A id \in Elems(in_links[i][f]) :
                    (id \notin DOMAIN id_mapping /\ ~ok(id)) => links[i][f] = None

\* A call that returned after stripping a reference to an unknown entity from
\* a list and from a scalar.
C2_Witness ==
    /\ pc = "done"
    /\ \E i \in 1..Len(links) :
        /\ E7 \in Elems(in_links[i].entities)
        /\ E7 \notin Elems(links[i].entities)
        /\ in_links[i].to = Some(E7)
        /\ links[i].to = None
        /\ links[i].entities # <<>>


\* Word characters of the regex class \w (ASCII part).
WordChars ==
    Digits \cup {"_"}
    \cup {"a", "b", "c", "d", "e", "f", "g", "h", "i", "j", "k", "l", "m",
          "n", "o", "p", "q", "r", "s", "t", "u", "v", "w", "x", "y", "z"}
    \cup {"A", "B", "C", "D", "E", "F", "G", "H", "I", "J", "K", "L", "M",
          "N", "O", "P", "Q", "R", "S", "T", "U", "V", "W", "X", "Y", "Z"}

IsWordAt(text, i) == i >= 1 /\ i <= Len(text) /\ text[i] \in WordChars

\* A word boundary lies between positions i - 1 and i of text.
BoundaryBefore(text, i) == IsWordAt(text, i - 1) # IsWordAt(text, i)

\* old occurs in text at position i as a whole token.
WholeTokenAt(text, old, i) ==
    /\ MatchesAt(text, old, i)
    /\ BoundaryBefore(text, i)
    /\ BoundaryBefore(text, i + Len(old))

HasWholeToken(text, old) == \E i \in 1..Len(text) : WholeTokenAt(text, old, i)

\* text with every whole-token occurrence of old replaced by new.
RECURSIVE ReplaceWholeFrom(_, _, _, _)
ReplaceWholeFrom(text, i, old, new) ==
    IF i > Len(text) THEN <<>>
    ELSE IF WholeTokenAt(text, old, i)
    THEN new \o ReplaceWholeFrom(text, i + Len(old), old, new)
    ELSE <<text[i]>> \o ReplaceWholeFrom(text, i + 1, old, new)

RECURSIVE ReplaceWholeTokens(_, _, _)
ReplaceWholeTokens(text, mapping, order) ==
    IF order = <<>> THEN text
    ELSE ReplaceWholeTokens(
            ReplaceWholeFrom(text, 1, Head(order), mapping[Head(order)]),
            mapping, Tail(order))

\* The old ids that were renamed and that no entity ends up with.
RenamedAway == (DOMAIN id_mapping) \ (FinalEntityIds \cup existing_entity_ids)

\* C3: after sanitize, in every link's text, line and expressions every
\* whole-token occurrence of a renamed old id is replaced by its new id, and
\* an occurrence inside a longer token is left untouched.
C3_FreeTextIsRewritten ==
    \A i \in 1..Len(links) :
        LET rewritten(t) ==
                {ReplaceWholeTokens(t, id_mapping, o) : o \in Orders(DOMAIN id_mapping)}
        IN  /\ in_links[i].text # None =>
                    links[i].text[1] \in rewritten(in_links[i].text[1])
            /\ \A j \in 1..Len(in_links[i].expressions) :
                    links[i].expressions[j] \in rewritten(in_links[i].expressions[j])
            /\ links[i].line # None =>
                    \A old \in RenamedAway : ~HasWholeToken(links[i].line[1], old)

\* C4: after the entity pass no two entities of the proposal have the same id.
C4_EntityIdsDistinct ==
    \A i, j \in 1..Len(entities) : i # j => entities[i].id # entities[j].id

\* C5: after sanitize the ids of the proposal's links are pairwise distinct.
C5_LinkIdsDistinct ==
    \A i, j \in 1..Len(links) : i # j => links[i].id # links[j].id

\* C6: every reference of a link that was equal to an old id recorded in
\* id_mapping is, after sanitize, that id's new id (one lookup: the new id is
\* not mapped again), and the lists hold nothing but the references so
\* mapped and the back-filled from/to.
C6_ReferencesMappedOnce ==
    \A i \in 1..Len(links) :
        /\ \A f \in ListFields :
            /\ \A id \in Elems(in_links[i][f]) :
                    id \in DOMAIN id_mapping => id_mapping[id] \in Elems(links[i][f])
            /\ Elems(links[i][f]) \subseteq
                    {IF id \in DOMAIN id_mapping THEN id_mapping[id] ELSE id :
                        id \in Elems(in_links[i][f])}
                    \cup Elems(links[i].from) \cup Elems(links[i].to)
        /\ \A f \in ScalarFields :
            \A id \in Elems(in_links[i][f]) :
                id \in DOMAIN id_mapping => links[i][f] = Some(id_mapping[id])

\* A link whose references were mapped through a map in which a new id is
\* also an old one (X1 -> E1 and E1 -> E2).
C6_Witness ==
    /\ pc = "done"
    /\ X1 \in DOMAIN id_mapping
    /\ id_mapping[X1] \in DOMAIN id_mapping
    /\ \E i \in 1..Len(links) :
        /\ X1 \in Elems(in_links[i].entities)
        /\ in_links[i].from = Some(X1)
        /\ links[i].from = Some(id_mapping[X1])

\* C7: sanitizing two copies of the same proposal with the same id sets gives
\* the same output in every field.
C7_TwoCopiesAgree ==
    pc = "compared" => (copy[1].entities = entities /\ copy[1].links = links)

\* C8: sanitize returns normally for every proposal and every pair of
\* existing id sets.
C8_NeverPanics == pc # "panicked"

\* ------------------------------------------------------------------ properties of parse_crt
ParseDone == parse_result # <<>>

\* The id a line declares, as <<>> or <<id>>.
LineId(sec) == ParseU32(sec.id)

\* The line is faulty whatever the rest of the file holds: its id does not
\* fit, its text is empty, or one of its expressions is malformed.
OwnFault(sec) ==
    IF sec.rule = "entity_line" THEN ~parse_entity_line(sec).ok
    ELSE ~parse_link_line(sec).ok

\* Line k declares the id of an earlier line of the same kind.
Repeats(doc, k) ==
    \E j \in 1..(k - 1) :
        /\ doc[j].rule = doc[k].rule
        /\ LineId(doc[j]) # <<>>
        /\ LineId(doc[j]) = LineId(doc[k])

FaultyLine(doc, k) == OwnFault(doc[k]) \/ Repeats(doc, k)

NoLineFault(doc) == \A k \in 1..Len(doc) : ~FaultyLine(doc, k)

\* Line k is the first faulty line of the file.
FirstFault(doc, k) ==
    /\ k \in 1..Len(doc)
    /\ FaultyLine(doc, k)
    /\ \A j \in 1..(k - 1) : ~FaultyLine(doc, j)

\* The ids the entity lines of the file declare.
Declared(doc) ==
    {LineId(doc[k])[1] :
        k \in {j \in 1..Len(doc) : doc[j].rule = "entity_line" /\ LineId(doc[j]) # <<>>}}

\* The entity ids the well-formed expressions of a link line reference.
Referenced(sec) ==
    UNION {Range(collect(parse_expr(sec.exprs[i]).expr)) :
              i \in {j \in 1..Len(sec.exprs) : parse_expr(sec.exprs[j]).ok}}

\* Link line k references entity e, which no entity line declares.
Dangling(doc, k, e) ==
    /\ k \in 1..Len(doc)
    /\ doc[k].rule = "link_line"
    /\ e \in Referenced(doc[k])
    /\ e \notin Declared(doc)

HasDangling(doc) ==
    \E k \in 1..Len(doc) : \E e \in Referenced(doc[k]) : Dangling(doc, k, e)

\* C9 (as stated): parse fails with UndefinedEntityReference(link, entity)
\* exactly when some segment of some link references an entity id that no
\* entity line of the file declares.
C9_UndefinedReferenceExactlyWhenDangling ==
    ParseDone =>
        (parse_result[1].kind = "UndefinedEntityReference" <=> HasDangling(sections))

\* C9 (amended): parse fails with UndefinedEntityReference(link, entity)
\* exactly when no line is faulty (an id that does not fit, an empty text, a
\* malformed expression, a repeated id) and some segment of some link
\* references an entity id that no entity line declares; the error then names
\* such a link and such an entity.  The check runs after all lines are read:
\* a file without faulty lines whose references are all declared somewhere,
\* before or after the link, parses successfully.
C9_UndefinedReferenceWhenNoLineFault ==
    ParseDone =>
        LET r == parse_result[1]
        IN  /\ r.kind = "UndefinedEntityReference"
                <=> (NoLineFault(sections) /\ HasDangling(sections))
            /\ r.kind = "UndefinedEntityReference" =>
                \E k \in 1..Len(sections) :
                    /\ LineId(sections[k]) = <<r.link>>
                    /\ Dangling(sections, k, r.entity)
            /\ (NoLineFault(sections) /\ ~HasDangling(sections)) => r.kind = "Ok"

\* A link line that references E1, declared on a later line, and E2, declared
\* nowhere: the parse got past the link and failed in the validation, with
\* UndefinedEntityReference(1, 2).
C9_Witness ==
    /\ ParseDone
    /\ parse_result[1] = ParseErr("UndefinedEntityReference", U32Of(1), U32Of(2))
    /\ \E k \in 1..Len(sections) : \E j \in (k + 1)..Len(sections) :
        /\ sections[k].rule = "link_line"
        /\ sections[j].rule = "entity_line"
        /\ LineId(sections[j]) = <<U32Of(1)>>
        /\ U32Of(1) \in Referenced(sections[k])

\* A link whose references are all declared on later lines parses.
C9_LaterDeclarationParses ==
    /\ ParseDone
    /\ parse_result[1].kind = "Ok"
    /\ \E k \in 1..Len(sections) :
        /\ sections[k].rule = "link_line"
        /\ \A e \in Referenced(sections[k]) :
            \E j \in (k + 1)..Len(sections) :
                sections[j].rule = "entity_line" /\ LineId(sections[j]) = <<e>>

\* Some two lines of the given kind declare the id.
DeclaredTwice(doc, rule, id) ==
    \E j, k \in 1..Len(doc) :
        /\ j < k
        /\ doc[j].rule = rule /\ doc[k].rule = rule
        /\ LineId(doc[j]) = <<id>> /\ LineId(doc[k]) = <<id>>

DeclaredIds(doc) ==
    UNION {IF LineId(doc[k]) = <<>> THEN {} ELSE {LineId(doc[k])[1]} : k \in 1..Len(doc)}

\* C10 (as stated): parse fails with DuplicateEntity(id) when two entity lines
\* declare the same id and with DuplicateLink(id) when two link lines declare
\* the same id; no Tree is returned on such a failure.
C10_DuplicateIdsAreReported ==
    ParseDone =>
        LET r == parse_result[1]
        IN  /\ (\E id \in DeclaredIds(sections) : DeclaredTwice(sections, "entity_line", id))
                => /\ r.kind = "DuplicateEntity"
                   /\ DeclaredTwice(sections, "entity_line", r.entity)
                   /\ r.tree = <<>>
            /\ (\E id \in DeclaredIds(sections) : DeclaredTwice(sections, "link_line", id))
                => /\ r.kind = "DuplicateLink"
                   /\ DeclaredTwice(sections, "link_line", r.link)
                   /\ r.tree = <<>>

\* C10 (amended): parse fails with DuplicateEntity(id) exactly when the first
\* faulty line of the file is an entity line without a fault of its own that
\* declares an id an earlier entity line declared, and with DuplicateLink(id)
\* exactly when it is such a link line; id is the id of that line.  A file in
\* which two lines of one kind declare the same id never yields a Tree, and no
\* failure yields one.  An entity line and a link line with the same number
\* do not collide.
C10_FirstDuplicateIsReported ==
    ParseDone =>
        LET r == parse_result[1]
            dup(rule, k) ==
                /\ FirstFault(sections, k)
                /\ sections[k].rule = rule
                /\ ~OwnFault(sections[k])
        IN  /\ r.kind = "DuplicateEntity"
                <=> \E k \in 1..Len(sections) :
                        dup("entity_line", k) /\ LineId(sections[k]) = <<r.entity>>
            /\ r.kind = "DuplicateLink"
                <=> \E k \in 1..Len(sections) :
                        dup("link_line", k) /\ LineId(sections[k]) = <<r.link>>
            /\ (\E k \in 1..Len(sections) : Repeats(sections, k)) => r.kind # "Ok"
            /\ r.kind # "Ok" <=> r.tree = <<>>

\* E1 and L1 were both accepted, and a second E1 then failed the parse with
\* DuplicateEntity(1) and no Tree.
C10_Witness ==
    /\ ParseDone
    /\ parse_result[1] = ParseErr("DuplicateEntity", U32Zero, U32Of(1))
    /\ cursor = 2
    /\ U32Of(1) \in DOMAIN crt_links

\* A second L1 failed the parse with DuplicateLink(1) and no Tree.
C10_DuplicateLinkReached ==
    /\ ParseDone
    /\ parse_result[1] = ParseErr("DuplicateLink", U32Of(1), U32Zero)

\* E1 and L1 in one file that parses.
C10_SharedNumberParses ==
    /\ ParseDone
    /\ parse_result[1].kind = "Ok"
    /\ U32Of(1) \in DOMAIN crt_entities
    /\ U32Of(1) \in DOMAIN crt_links

\* The positions of the lines of a kind.
LinesOf(doc, rule) == {k \in 1..Len(doc) : doc[k].rule = rule}

\* The number an ID part denotes, as digits without leading zeros.
IdNumber(sec) == TrimStartMatches(sec.id, "0")

\* The lines of the kind have pairwise distinct ids.
DistinctIds(doc, rule) ==
    \A j, k \in LinesOf(doc, rule) : j # k => IdNumber(doc[j]) # IdNumber(doc[k])

\* Every entity line has a non-empty text, every link line two or more
\* well-formed expressions, and every entity a link references is declared.
TextsAndLinksFine(doc) ==
    /\ \A k \in LinesOf(doc, "entity_line") : Trim(doc[k].text) # <<>>
    /\ \A k \in LinesOf(doc, "link_line") :
        /\ Len(doc[k].exprs) >= 2
        /\ \A i \in 1..Len(doc[k].exprs) : parse_expr(doc[k].exprs[i]).ok
        /\ \A e \in Referenced(doc[k]) :
            \E j \in LinesOf(doc, "entity_line") : LineId(doc[j]) = <<e>>

\* The tree holds exactly the entities of the entity lines, each with its
\* line's trimmed text.
TreeHoldsEntities(tree, doc) ==
    /\ Cardinality(DOMAIN tree.entities) = Cardinality(LinesOf(doc, "entity_line"))
    /\ \A k \in LinesOf(doc, "entity_line") :
        /\ LineId(doc[k]) # <<>>
        /\ LineId(doc[k])[1] \in DOMAIN tree.entities
        /\ tree.entities[LineId(doc[k])[1]] = Trim(doc[k].text)

\* C20 (as stated): for every document with N entity lines of pairwise
\* distinct ids (non-empty texts, well-formed links that reference only
\* declared entities) parse succeeds and the tree has exactly N entities, one
\* per declared id with that line's trimmed text.
C20_DistinctEntitiesParse ==
    (ParseDone /\ DistinctIds(sections, "entity_line") /\ TextsAndLinksFine(sections)) =>
        /\ parse_result[1].kind = "Ok"
        /\ TreeHoldsEntities(parse_result[1].tree[1], sections)

\* C20 (amended): the same for every document whose link lines have pairwise
\* distinct ids as well and whose ids all fit 32 bits.
C20_DistinctIdsParse ==
    (/\ ParseDone
     /\ DistinctIds(sections, "entity_line")
     /\ DistinctIds(sections, "link_line")
     /\ \A k \in 1..Len(sections) : LineId(sections[k]) # <<>>
     /\ TextsAndLinksFine(sections)) =>
        /\ parse_result[1].kind = "Ok"
        /\ TreeHoldsEntities(parse_result[1].tree[1], sections)

\* `E1. b ` / `E2. a` / a link between them parsed: the tree has the two
\* entities, E1 with the text "b".
C20_Witness ==
    /\ ParseDone
    /\ Len(sections) = 3
    /\ sections[1] = EntityLine(Id1, <<"b", " ">>)
    /\ sections[2] = EntityLine(Id2, <<"a">>)
    /\ sections[3].rule = "link_line"
    /\ parse_result[1].kind = "Ok"
    /\ DOMAIN parse_result[1].tree[1].entities = {U32Of(1), U32Of(2)}
    /\ parse_result[1].tree[1].entities[U32Of(1)] = <<"b">>

\* The faults of line k among duplicate entity id, duplicate link id, empty
\* entity text and malformed link expression.
ListedFaults(doc, k) ==
    (IF doc[k].rule = "entity_line"
        /\ \A i \in 1..Len(doc[k].text) : IsSpace(doc[k].text[i])
     THEN {"EmptyText"} ELSE {})
    \cup (IF doc[k].rule = "link_line"
             /\ \E j \in 1..Len(doc[k].exprs) : ~parse_expr(doc[k].exprs[j]).ok
          THEN {"MalformedExpression"} ELSE {})
    \cup (IF doc[k].rule = "entity_line" /\ Repeats(doc, k)
          THEN {"DuplicateEntity"} ELSE {})
    \cup (IF doc[k].rule = "link_line" /\ Repeats(doc, k)
          THEN {"DuplicateLink"} ELSE {})

\* The same, with the id that does not fit 32 bits, which is found before
\* any other fault of its line.
LineFaults(doc, k) ==
    IF LineId(doc[k]) = <<>> THEN {"InvalidId"} ELSE ListedFaults(doc, k)

\* C29 (as stated): when a document has several faults, parse reports the
\* fault of the earliest offending line among duplicate entity id, duplicate
\* link id, empty entity text and malformed link expression, and reports an
\* undefined entity reference only when no line has such a fault, even if
\* the link with the undefined reference comes before the faulty line.
C29_EarliestListedFaultIsReported ==
    ParseDone =>
        LET r == parse_result[1]
            offending == {k \in 1..Len(sections) : ListedFaults(sections, k) # {}}
        IN  /\ \A k \in offending :
                (\A j \in offending : k <= j) => r.kind \in ListedFaults(sections, k)
            /\ r.kind = "UndefinedEntityReference" => offending = {}

\* C29 (amended): parse reports the fault of the earliest offending line
\* among an id that does not fit 32 bits, duplicate entity id, duplicate link
\* id, empty entity text and malformed link expression, and reports an
\* undefined entity reference only when no line has such a fault, even if
\* the link with the undefined reference comes before the faulty line.
C29_EarliestFaultIsReported ==
    ParseDone =>
        LET r == parse_result[1]
            offending == {k \in 1..Len(sections) : LineFaults(sections, k) # {}}
        IN  /\ \A k \in offending :
                (\A j \in offending : k <= j) => r.kind \in LineFaults(sections, k)
            /\ r.kind = "UndefinedEntityReference" => offending = {}

\* `L1. E1 -> E2` / `E1. a` / `E1. b`: E2 is declared nowhere and the third
\* line repeats E1; parse reports the duplicate entity.
C29_Witness ==
    /\ ParseDone
    /\ sections = <<LinkLine(Id1, <<RefE1, RefE2>>), EntityLine(Id1, <<"a">>),
                    EntityLine(Id1, <<"b", " ">>)>>
    /\ parse_result[1].kind = "DuplicateEntity"

\* `L2. E1 E2 -> E1` / `E1.  ` : two faulty lines, the malformed expression of
\* the first is reported.
C29_TwoFaultsReached ==
    /\ ParseDone
    /\ sections = <<LinkLine(Id2, <<TwoRefs, RefE1>>), EntityLine(Id1, <<" ">>)>>
    /\ parse_result[1].kind = "MalformedExpression"

\* `E4294967296. a` / `E1. a` / `E1. b`: the id of the first line is reported,
\* not the duplicate of the third.
C29_UnfitIdReached ==
    /\ ParseDone
    /\ sections = <<EntityLine(IdBig, <<"a">>), EntityLine(Id1, <<"a">>),
                    EntityLine(Id1, <<"b", " ">>)>>
    /\ parse_result[1].kind = "InvalidId"

\* ------------------------------------------------------------------ flattener
Leaf(id, negated) == [id |-> id, negated |-> negated]

\* #[derive(PartialOrd, Ord)] of Leaf: by id, then false before true.
LeafLess(a, b) ==
    \/ U32Less(a.id, b.id)
    \/ (a.id = b.id /\ ~a.negated /\ b.negated)

\* A walk in which Not leaves the flag as it is.
RECURSIVE flatten_expr_inner_unsigned(_, _)
RECURSIVE flatten_items_unsigned(_, _)
flatten_expr_inner_unsigned(expr, negated) ==
    IF expr.k = "EntityRef" THEN <<Leaf(expr.id, negated)>>
    ELSE IF expr.k = "Not" THEN flatten_expr_inner_unsigned(expr.args[1], negated)
    ELSE flatten_items_unsigned(expr.args, negated)

flatten_items_unsigned(items, negated) ==
    IF items = <<>> THEN <<>>
    ELSE flatten_expr_inner_unsigned(Head(items), negated)
            \o flatten_items_unsigned(Tail(items), negated)

\* flatten_expr_inner of crates/crt-core/src/wasm.rs (lines 435-458): the
\* leaves pushed for expr under the flag negated.
RECURSIVE flatten_expr_inner(_, _)
RECURSIVE flatten_items(_, _)
flatten_expr_inner(expr, negated) ==
    IF expr.k = "EntityRef" THEN <<Leaf(expr.id, negated)>>
    ELSE IF expr.k = "Not" THEN flatten_expr_inner(expr.args[1], ~negated)
    ELSE flatten_items(expr.args, negated)

flatten_items(items, negated) ==
    IF items = <<>> THEN <<>>
    ELSE flatten_expr_inner(Head(items), negated) \o flatten_items(Tail(items), negated)

flatten_expr(expr) == flatten_expr_inner(expr, FALSE)

\* flatten_expr_inner of src/src/wasm.rs (lines 21-37), which reassigns its
\* own flag before it descends into a Not.
RECURSIVE wasm_flatten_expr_inner(_, _)
RECURSIVE wasm_flatten_items(_, _)
wasm_flatten_expr_inner(expr, negated) ==
    IF expr.k = "EntityRef" THEN <<Leaf(expr.id, negated)>>
    ELSE IF expr.k = "Not"
    THEN LET flipped == ~negated IN wasm_flatten_expr_inner(expr.args[1], flipped)
    ELSE wasm_flatten_items(expr.args, negated)

wasm_flatten_items(items, negated) ==
    IF items = <<>> THEN <<>>
    ELSE wasm_flatten_expr_inner(Head(items), negated)
            \o wasm_flatten_items(Tail(items), negated)

wasm_flatten_expr(expr) == wasm_flatten_expr_inner(expr, FALSE)

\* Vec::sort of leaves.
RECURSIVE sort(_)
sort(v) ==
    IF v = <<>> THEN <<>>
    ELSE LET i == CHOOSE j \in 1..Len(v) : \A k \in 1..Len(v) : ~LeafLess(v[k], v[j])
         IN  <<v[i]>> \o sort(SubSeq(v, 1, i - 1) \o SubSeq(v, i + 1, Len(v)))

\* A dedup that removes nothing.
vec_dedup_none(v) == v

\* Vec::dedup: consecutive repeats removed.
RECURSIVE vec_dedup(_)
vec_dedup(v) ==
    IF Len(v) < 2 THEN v
    ELSE IF v[1] = v[2] THEN vec_dedup(Tail(v))
    ELSE <<v[1]>> \o vec_dedup(Tail(v))

\* The terms of one side of a window (lines 366-372).
Terms(expr) == vec_dedup(sort(flatten_expr(expr)))

StartNode == [kind |-> "IF", id |-> U32Zero]

EntityNode(id) == [kind |-> "E", id |-> id]

\* push_link (lines 460-488): the object pushed on links_array.
push_link(source, target, relation_type, source_negated, target_negated) ==
    [source |-> source, target |-> target, type |-> relation_type,
     source_negated |-> source_negated, target_negated |-> target_negated]

\* A relation that follows the number of source leaves.
relation_type_by_count(source_expr) ==
    IF Len(Terms(source_expr)) > 1 THEN "AND" ELSE "THEN"

\* The relation of a window (lines 381-385).
relation_type(source_expr) == IF source_expr.k = "And" THEN "AND" ELSE "THEN"

\* The inner loop over to_terms (lines 389-399).
RECURSIVE TargetLoop(_, _, _)
TargetLoop(source, to_terms, relation) ==
    IF to_terms = <<>> THEN <<>>
    ELSE <<push_link(EntityNode(source.id), EntityNode(Head(to_terms).id), relation,
                     source.negated, Head(to_terms).negated)>>
            \o TargetLoop(source, Tail(to_terms), relation)

\* The outer loop over from_terms (lines 387-400).
RECURSIVE SourceLoop(_, _, _)
SourceLoop(from_terms, to_terms, relation) ==
    IF from_terms = <<>> THEN <<>>
    ELSE TargetLoop(Head(from_terms), to_terms, relation)
            \o SourceLoop(Tail(from_terms), to_terms, relation)

\* The edges of one window (lines 362-401).
WindowEdges(source_expr, target_expr) ==
    SourceLoop(Terms(source_expr), Terms(target_expr), relation_type(source_expr))

\* segments.windows(2), from window i on: the edges, in order.
RECURSIVE WindowsFrom(_, _)
WindowsFrom(segments, i) ==
    IF i + 1 > Len(segments) THEN <<>>
    ELSE WindowEdges(segments[i], segments[i + 1]) \o WindowsFrom(segments, i + 1)

\* One turn of `for link in crt.links.values()` (lines 356-403): the edges.
LinkEdges(segments) == IF Len(segments) < 2 THEN <<>> ELSE WindowsFrom(segments, 1)

\* The leaves the turn inserts into source_terms (lines 374-376).
LinkSources(segments) ==
    UNION {Range(Terms(segments[i])) : i \in 1..(Len(segments) - 1)}

\* The leaves the turn inserts into target_terms (lines 377-379).
LinkTargets(segments) ==
    UNION {Range(Terms(segments[i])) : i \in 2..Len(segments)}

\* BTreeSet::iter: the leaves in ascending order.
RECURSIVE SortedLeaves(_)
SortedLeaves(S) ==
    IF S = {} THEN <<>>
    ELSE LET least == CHOOSE m \in S : \A x \in S : ~LeafLess(x, m)
         IN  <<least>> \o SortedLeaves(S \ {least})

\* A loop over source_terms that skips nothing.
RECURSIVE StartEdgesUnfiltered(_, _)
StartEdgesUnfiltered(leaves, targets) ==
    IF leaves = <<>> THEN <<>>
    ELSE <<push_link(StartNode, EntityNode(Head(leaves).id), "IF", FALSE,
                     Head(leaves).negated)>>
            \o StartEdgesUnfiltered(Tail(leaves), targets)

\* The loop over source_terms (lines 408-420).
RECURSIVE StartEdges(_, _)
StartEdges(leaves, targets) ==
    IF leaves = <<>> THEN <<>>
    ELSE (IF Head(leaves) \in targets THEN <<>>
          ELSE <<push_link(StartNode, EntityNode(Head(leaves).id), "IF", FALSE,
                           Head(leaves).negated)>>)
            \o StartEdges(Tail(leaves), targets)

\* A loop over the entities that pushes one node whatever their number.
EntityNodesOnce(order, ents) ==
    IF order = <<>> THEN <<>>
    ELSE <<[id |-> EntityNode(Head(order)), text |-> ents[Head(order)], type |-> "normal"]>>

\* ---- parse_content of src/src/wasm.rs
\* push_link of src/src/wasm.rs (lines 39-75); the label is the relation,
\* followed by the word NOT for a negated target.
wasm_push_link(source, target, rel_type, source_negated, target_negated) ==
    [source |-> source, target |-> target, type |-> rel_type,
     label |-> IF target_negated THEN <<rel_type, "NOT">> ELSE <<rel_type>>,
     negated |-> source_negated \/ target_negated,
     sourceNegated |-> source_negated, targetNegated |-> target_negated]

\* Lines 111-117: the sorted, deduplicated leaves of link.from or link.to.
wasm_Terms(expr) == vec_dedup(sort(wasm_flatten_expr(expr)))

\* Lines 123-127.
wasm_relation_type(from) == IF from.k = "And" THEN "AND" ELSE "THEN"

\* Lines 131-141: the loop over to_terms.
RECURSIVE wasm_TargetLoop(_, _, _)
wasm_TargetLoop(source, to_terms, relation) ==
    IF to_terms = <<>> THEN <<>>
    ELSE <<wasm_push_link(EntityNode(source.id), EntityNode(Head(to_terms).id),
                          relation, source.negated, Head(to_terms).negated)>>
            \o wasm_TargetLoop(source, Tail(to_terms), relation)

\* Lines 129-142: the loop over from_terms.
RECURSIVE wasm_SourceLoop(_, _, _)
wasm_SourceLoop(from_terms, to_terms, relation) ==
    IF from_terms = <<>> THEN <<>>
    ELSE wasm_TargetLoop(Head(from_terms), to_terms, relation)
            \o wasm_SourceLoop(Tail(from_terms), to_terms, relation)

\* Lines 109-143: the loop over crt.links.values(), with the first segment
\* of a link as link.from and the second as link.to.  The result holds the
\* edges and seen_if_terms.
RECURSIVE wasm_LinkLoop(_, _, _)
wasm_LinkLoop(order, lnks, st) ==
    IF order = <<>> THEN st
    ELSE LET from == lnks[Head(order)][1]
             to   == lnks[Head(order)][2]
         IN  wasm_LinkLoop(Tail(order), lnks,
                [links |-> st.links \o wasm_SourceLoop(wasm_Terms(from), wasm_Terms(to),
                                                       wasm_relation_type(from)),
                 seen_if_terms |-> st.seen_if_terms \cup Range(wasm_Terms(from))])

\* Lines 145-154: the loop over seen_if_terms.
RECURSIVE wasm_StartEdges(_)
wasm_StartEdges(leaves) ==
    IF leaves = <<>> THEN <<>>
    ELSE <<wasm_push_link(StartNode, EntityNode(Head(leaves).id), "IF", FALSE,
                          Head(leaves).negated)>>
            \o wasm_StartEdges(Tail(leaves))

\* Lines 106-154: links_array of parse_content of src/src/wasm.rs.
wasm_parse_content(order, lnks) ==
    LET st == wasm_LinkLoop(order, lnks, [links |-> <<>>, seen_if_terms |-> {}])
    IN  st.links \o wasm_StartEdges(SortedLeaves(st.seen_if_terms))

\* The nodes (lines 318-351): the start node, then the entities in the order
\* of crt.entities.values().
RECURSIVE EntityNodes(_, _)
EntityNodes(order, ents) ==
    IF order = <<>> THEN <<>>
    ELSE <<[id |-> EntityNode(Head(order)), text |-> ents[Head(order)], type |-> "normal"]>>
            \o EntityNodes(Tail(order), ents)

StartNodeObject == [id |-> StartNode, text |-> <<"I", "F">>, type |-> "start"]

\* ------------------------------------------------------------------ documents to flatten
MaxLinkLines == 2

Id3 == <<"3">>

\* The expr parts of the link lines.
SegAndToE3 ==
    <<<<"(", "E", "1", " ", "A", "N", "D", " ", "E", "2", ")">>,
      <<"E", "3">>>>

SegE1ToE2 ==
    <<<<"E", "1">>,
      <<"E", "2">>>>

SegBothSigns ==
    <<<<"E", "1", " ", "A", "N", "D", " ", "N", "O", "T", " ", "E", "1">>,
      <<"E", "3">>>>

SegToNotE3 ==
    <<<<"E", "2">>,
      <<"N", "O", "T", " ", "E", "3">>>>

SegE3ToE1 ==
    <<<<"E", "3">>,
      <<"E", "1">>>>

SegChain ==
    <<<<"E", "2">>,
      <<"E", "3">>,
      <<"E", "1">>>>

SegRepeats ==
    <<<<"E", "2", " ", "A", "N", "D", " ", "E", "1", " ", "A", "N", "D", " ", "E", "2">>,
      <<"N", "O", "T", " ", "N", "O", "T", " ", "E", "3">>>>

SegNotOfAnd ==
    <<<<"N", "O", "T", " ", "(", "E", "1", " ", "A", "N", "D", " ", "N", "O", "T", " ", "E", "2", ")">>,
      <<"E", "3">>>>

SegNotOfPlainAnd ==
    <<<<"N", "O", "T", " ", "(", "E", "1", " ", "A", "N", "D", " ", "E", "2", ")">>,
      <<"E", "3">>>>

SegAndOfSame ==
    <<<<"(", "E", "1", " ", "A", "N", "D", " ", "E", "1", ")">>,
      <<"E", "2">>>>

FlatSegments ==
    {SegAndToE3, SegE1ToE2, SegBothSigns, SegToNotE3,
     SegE3ToE1, SegChain, SegRepeats, SegNotOfAnd,
     SegNotOfPlainAnd, SegAndOfSame}

\* The entity lines every document starts with.
FlatEntityLines ==
    <<EntityLine(Id1, <<"a">>), EntityLine(Id2, <<"b">>), EntityLine(Id3, <<"c">>)>>

FlatLinkLines == {LinkLine(id, segs) : id \in {Id1, Id2, Id3}, segs \in FlatSegments}

\* The documents: the entity lines, then up to MaxLinkLines link lines of
\* distinct ids in any order.
FlatLinkedDocs ==
    {FlatEntityLines \o ls :
        ls \in {d \in UNION {[1..n -> FlatLinkLines] : n \in 0..MaxLinkLines} :
                    \A i, j \in 1..Len(d) : i # j => d[i].id # d[j].id}}

\* Documents without links: no line at all, one entity, and two entities
\* with the greater id first.
FlatEntityDocs ==
    {<<>>,
     <<EntityLine(Id1, <<"a">>)>>,
     <<EntityLine(Id2, <<"b">>), EntityLine(Id1, <<"a">>)>>}

FlatDocs == FlatLinkedDocs \cup FlatEntityDocs

\* ------------------------------------------------------------------ parse_content
FlattenInit ==
    /\ sections \in FlatDocs
    /\ cursor = 0
    /\ crt_entities = EmptyMap
    /\ crt_links = EmptyMap
    /\ parse_result = <<>>
    /\ SanIdle
    /\ FlatIdle
    /\ ExprIdle
    /\ TimeIdle

\* parse_crt has returned the tree: the nodes, and the sets and the iterator
\* of the link loop (lines 316-354).
FlattenNodes ==
    /\ flat_pc = "idle"
    /\ parse_result # <<>>
    /\ parse_result[1].kind = "Ok"
    /\ flat_pc' = "links"
    /\ graph_nodes' = <<StartNodeObject>>
                        \o EntityNodes(SortedKeys(DOMAIN crt_entities), crt_entities)
    /\ graph_links' = <<>>
    /\ source_terms' = {}
    /\ target_terms' = {}
    /\ flat_order' = SortedKeys(DOMAIN crt_links)
    /\ flat_index' = 0
    /\ UNCHANGED wasm_links
    /\ UNCHANGED <<san_vars, parse_vars, expr_vars, time_vars>>

\* One turn of the loop over crt.links.values() (lines 356-403).
FlattenLink ==
    /\ flat_pc = "links"
    /\ flat_index < Len(flat_order)
    /\ LET segments == crt_links[flat_order[flat_index + 1]]
       IN  /\ graph_links' = graph_links \o LinkEdges(segments)
           /\ source_terms' = source_terms \cup LinkSources(segments)
           /\ target_terms' = target_terms \cup LinkTargets(segments)
    /\ flat_index' = flat_index + 1
    /\ UNCHANGED <<flat_pc, graph_nodes, flat_order, wasm_links>>
    /\ UNCHANGED <<san_vars, parse_vars, expr_vars, time_vars>>

\* The start edges and the return (lines 408-426).
FlattenStartEdges ==
    /\ flat_pc = "links"
    /\ flat_index = Len(flat_order)
    /\ graph_links' = graph_links \o StartEdges(SortedLeaves(source_terms), target_terms)
    /\ flat_pc' = "done"
    /\ UNCHANGED <<graph_nodes, source_terms, target_terms, flat_order, flat_index,
                   wasm_links>>
    /\ UNCHANGED <<san_vars, parse_vars, expr_vars, time_vars>>

\* parse_content of src/src/wasm.rs on the same tree, whose links have a
\* from and a to: two segments each.
WasmParseContent ==
    /\ parse_result # <<>>
    /\ parse_result[1].kind = "Ok"
    /\ wasm_links = <<>>
    /\ \A id \in DOMAIN crt_links : Len(crt_links[id]) = 2
    /\ wasm_links' = <<wasm_parse_content(SortedKeys(DOMAIN crt_links), crt_links)>>
    /\ UNCHANGED <<flat_pc, graph_nodes, graph_links, source_terms, target_terms,
                   flat_order, flat_index>>
    /\ UNCHANGED <<san_vars, parse_vars, expr_vars, time_vars>>

FlattenNext ==
    \/ ParseEntityLine
    \/ ParseLinkLine
    \/ ParseValidate
    \/ FlattenNodes
    \/ FlattenLink
    \/ FlattenStartEdges
    \/ WasmParseContent

SpecFlatten == FlattenInit /\ [][FlattenNext]_vars

\* ------------------------------------------------------------------ properties of parse_content
\* The entity references of an expression, each with the number of Not nodes
\* above it, from left to right.
RECURSIVE Occurrences(_, _)
Occurrences(expr, nots) ==
    CASE expr.k = "EntityRef" -> <<[id |-> expr.id, nots |-> nots]>>
      [] expr.k = "Not" -> Occurrences(expr.args[1], nots + 1)
      [] expr.k = "And" ->
            IF expr.args = <<>> THEN <<>>
            ELSE Occurrences(expr.args[1], nots)
                    \o Occurrences([expr EXCEPT !.args = Tail(expr.args)], nots)

\* The leaf set of an expression: (id, negated) with negated the parity of the
\* Not nodes above the reference.
LeafSet(expr) ==
    {Leaf(o.id, o.nots % 2 = 1) : o \in Range(Occurrences(expr, 0))}

\* The adjacent pairs of segments of the links ids, link after link.
RECURSIVE PairList(_, _)
PairList(ids, lnks) ==
    IF ids = <<>> THEN <<>>
    ELSE LET segs == lnks[Head(ids)]
         IN  [i \in 1..(Len(segs) - 1) |-> <<segs[i], segs[i + 1]>>]
                \o PairList(Tail(ids), lnks)

PairSize(pair) == Cardinality(LeafSet(pair[1])) * Cardinality(LeafSet(pair[2]))

\* The number of edges of the pairs before pair k.
RECURSIVE Offset(_, _)
Offset(pairs, k) ==
    IF k <= 1 THEN 0 ELSE Offset(pairs, k - 1) + PairSize(pairs[k - 1])

\* The edges the specification asks of a pair.
PairEdgeSet(pair) ==
    {[source |-> EntityNode(s.id), target |-> EntityNode(t.id),
      type |-> IF pair[1].k = "And" THEN "AND" ELSE "THEN",
      source_negated |-> s.negated, target_negated |-> t.negated] :
        s \in LeafSet(pair[1]), t \in LeafSet(pair[2])}

FlatRunning == flat_pc \in {"links", "done"}

\* The pairs of the links the loop has been through, in its order.
SeenPairs == PairList(SubSeq(flat_order, 1, flat_index), crt_links)

\* C11: for every adjacent pair of segments (S, T) of every link, chains
\* included, the flattener emits exactly one edge for each (source leaf,
\* target leaf) combination of the deduplicated leaf sets of S and T,
\* |leaves(S)| x |leaves(T)| edges, each with the flags of its two leaves and
\* the relation AND when S is a conjunction; nothing else is emitted before
\* the start edges.
C11_OneEdgePerLeafPair ==
    FlatRunning =>
        LET pairs == SeenPairs
            total == Offset(pairs, Len(pairs) + 1)
        IN  /\ Len(graph_links) >= total
            /\ flat_pc = "links" => Len(graph_links) = total
            /\ \A k \in 1..Len(pairs) :
                {graph_links[Offset(pairs, k) + i] : i \in 1..PairSize(pairs[k])}
                    = PairEdgeSet(pairs[k])
            /\ \A i \in 1..Len(graph_links) : graph_links[i].type = "IF" <=> i > total

\* `L1. (E1 AND E2) -> E3` and a chain of three segments were flattened: the
\* first link gave exactly the edges E1->E3 and E2->E3 with relation AND, the
\* chain E2->E3 and E3->E1.
C11_Witness ==
    /\ flat_pc = "done"
    /\ sections = FlatEntityLines \o <<LinkLine(Id1, SegAndToE3), LinkLine(Id2, SegChain)>>
    /\ SubSeq(graph_links, 1, 4) =
        <<push_link(EntityNode(U32Of(1)), EntityNode(U32Of(3)), "AND", FALSE, FALSE),
          push_link(EntityNode(U32Of(2)), EntityNode(U32Of(3)), "AND", FALSE, FALSE),
          push_link(EntityNode(U32Of(2)), EntityNode(U32Of(3)), "THEN", FALSE, FALSE),
          push_link(EntityNode(U32Of(3)), EntityNode(U32Of(1)), "THEN", FALSE, FALSE)>>
    /\ \A i \in 5..Len(graph_links) : graph_links[i].type = "IF"

\* All pairs of all links of the tree.
AllPairs == PairList(SortedKeys(DOMAIN crt_links), crt_links)

\* The entity ids that are a source, and those that are a target, in some pair.
SourceIds == UNION {{l.id : l \in LeafSet(AllPairs[k][1])} : k \in 1..Len(AllPairs)}

TargetIds == UNION {{l.id : l \in LeafSet(AllPairs[k][2])} : k \in 1..Len(AllPairs)}

\* The positions of the start edges to the entity id.
StartEdgesTo(id) ==
    {i \in 1..Len(graph_links) :
        graph_links[i].type = "IF" /\ graph_links[i].target = EntityNode(id)}

\* C12: in the flattener's output every entity id that is a source in some
\* pair and a target in none has exactly one relation=IF edge from the start
\* node, and an entity id that is a target in any pair has no IF edge at all,
\* whatever the negation of its occurrences.
C12_StartEdgePerSourceOnlyEntity ==
    flat_pc = "done" =>
        /\ \A id \in SourceIds \ TargetIds : Cardinality(StartEdgesTo(id)) = 1
        /\ \A id \in TargetIds : StartEdgesTo(id) = {}

\* What the code keeps instead: one start edge for every (id, negated) leaf
\* that is a source leaf of some pair and a target leaf of none.
C12_StartEdgePerSourceOnlyLeaf ==
    flat_pc = "done" =>
        LET srcs == UNION {LeafSet(AllPairs[k][1]) : k \in 1..Len(AllPairs)}
            tgts == UNION {LeafSet(AllPairs[k][2]) : k \in 1..Len(AllPairs)}
        IN  \A id \in SourceIds \cup TargetIds : \A neg \in BOOLEAN :
                Cardinality({i \in StartEdgesTo(id) : graph_links[i].target_negated = neg})
                    = IF Leaf(id, neg) \in srcs \ tgts THEN 1 ELSE 0

\* The ids of the link lines, in the order of the document.
RECURSIVE DocLinkIds(_)
DocLinkIds(doc) ==
    IF doc = <<>> THEN <<>>
    ELSE (IF Head(doc).rule = "link_line" THEN LineId(Head(doc)) ELSE <<>>)
            \o DocLinkIds(Tail(doc))

\* The edges of a pair in leaf order: source leaf after source leaf, and for
\* each the target leaves, both in the order of the sorted leaf sets.
PairEdgeSeq(pair) ==
    LET src == SortedLeaves(LeafSet(pair[1]))
        tgt == SortedLeaves(LeafSet(pair[2]))
        m   == Len(tgt)
    IN  [i \in 1..(Len(src) * m) |->
            [source |-> EntityNode(src[((i - 1) \div m) + 1].id),
             target |-> EntityNode(tgt[((i - 1) % m) + 1].id),
             type |-> IF pair[1].k = "And" THEN "AND" ELSE "THEN",
             source_negated |-> src[((i - 1) \div m) + 1].negated,
             target_negated |-> tgt[((i - 1) % m) + 1].negated]]

RECURSIVE EdgesInOrder(_)
EdgesInOrder(pairs) ==
    IF pairs = <<>> THEN <<>> ELSE PairEdgeSeq(Head(pairs)) \o EdgesInOrder(Tail(pairs))

\* The edges of the output that are not start edges.
RECURSIVE LinkEdgesOf(_)
LinkEdgesOf(edges) ==
    IF edges = <<>> THEN <<>>
    ELSE (IF Head(edges).type = "IF" THEN <<>> ELSE <<Head(edges)>>)
            \o LinkEdgesOf(Tail(edges))

\* C13: the flattener emits the link edges in the document order of the link
\* lines, then pair order within a link, then leaf order within a pair, also
\* for a document whose link lines are not in ascending id order.
C13_EdgesInDocumentOrder ==
    flat_pc = "done" =>
        LinkEdgesOf(graph_links) = EdgesInOrder(PairList(DocLinkIds(sections), crt_links))

\* What the code keeps instead: the links in ascending order of their ids.
C13_EdgesInIdOrder ==
    flat_pc = "done" =>
        LinkEdgesOf(graph_links) = EdgesInOrder(AllPairs)

\* The leaves that are a source leaf, and those that are a target leaf, of
\* some pair of the tree.
SourceLeaves == UNION {LeafSet(AllPairs[k][1]) : k \in 1..Len(AllPairs)}

TargetLeaves == UNION {LeafSet(AllPairs[k][2]) : k \in 1..Len(AllPairs)}

\* C21: flattening never fails on a tree that parse returns (parse_content
\* has no outcome but the graph once parse_crt has returned a tree); the
\* graph has exactly one start node labelled IF, followed by one normal node
\* per entity with the id and the text of the entity; for a tree with no
\* entities and no links it is the start node alone, with no edges.
C21_StartNodeThenEntityNodes ==
    /\ FlatRunning =>
        /\ Len(graph_nodes) = 1 + Cardinality(DOMAIN crt_entities)
        /\ graph_nodes[1] =
                [id |-> [kind |-> "IF", id |-> U32Zero], text |-> <<"I", "F">>,
                 type |-> "start"]
        /\ \A id \in DOMAIN crt_entities :
                Cardinality({i \in 2..Len(graph_nodes) :
                    graph_nodes[i] = [id |-> [kind |-> "E", id |-> id],
                                      text |-> crt_entities[id],
                                      type |-> "normal"]}) = 1
    /\ (flat_pc = "done" /\ DOMAIN crt_entities = {} /\ DOMAIN crt_links = {}) =>
            (Len(graph_nodes) = 1 /\ graph_links = <<>>)

\* The document without a line was flattened: the start node and nothing else.
C21_Witness ==
    /\ sections = <<>>
    /\ flat_pc = "done"
    /\ graph_nodes = <<[id |-> StartNode, text |-> <<"I", "F">>, type |-> "start"]>>
    /\ graph_links = <<>>

\* `E2. b` / `E1. a` was flattened: the start node, then E1 and E2.
C21_TwoEntitiesReached ==
    /\ sections = <<EntityLine(Id2, <<"b">>), EntityLine(Id1, <<"a">>)>>
    /\ flat_pc = "done"
    /\ Len(graph_nodes) = 3
    /\ graph_nodes[2] = [id |-> EntityNode(U32Of(1)), text |-> <<"a">>, type |-> "normal"]
    /\ graph_nodes[3] = [id |-> EntityNode(U32Of(2)), text |-> <<"b">>, type |-> "normal"]

\* C22: the flattener emits one IF edge from the start node for each distinct
\* (entity id, negated) leaf that is a source leaf of some pair and a target
\* leaf of no pair, compared as a pair of id and flag; each such edge has
\* source_negated = false and target_negated equal to the leaf's flag, and
\* no other IF edge is emitted.
C22_OneStartEdgePerSourceOnlyLeaf ==
    flat_pc = "done" =>
        LET ifs == {i \in 1..Len(graph_links) : graph_links[i].type = "IF"}
        IN  /\ \A leaf \in SourceLeaves \ TargetLeaves :
                Cardinality({i \in ifs :
                    graph_links[i] =
                        [source |-> StartNode, target |-> EntityNode(leaf.id),
                         type |-> "IF", source_negated |-> FALSE,
                         target_negated |-> leaf.negated]}) = 1
            /\ \A i \in ifs :
                /\ graph_links[i].source = StartNode
                /\ graph_links[i].source_negated = FALSE
                /\ \E leaf \in SourceLeaves \ TargetLeaves :
                    /\ graph_links[i].target = EntityNode(leaf.id)
                    /\ graph_links[i].target_negated = leaf.negated

\* `L1. E1 AND NOT E1 -> E3` / `L2. E3 -> E1` was flattened: E1 and E3 are
\* target leaves, NOT E1 is a source leaf only, and the one IF edge goes to
\* E1 with target_negated set.
C22_Witness ==
    /\ flat_pc = "done"
    /\ sections = FlatEntityLines \o <<LinkLine(Id1, SegBothSigns), LinkLine(Id2, SegE3ToE1)>>
    /\ LinkEdgesOf(graph_links) = SubSeq(graph_links, 1, Len(graph_links) - 1)
    /\ graph_links[Len(graph_links)] =
            push_link(StartNode, EntityNode(U32Of(1)), "IF", FALSE, TRUE)

\* C23: all edges of a segment pair (S, T) have relation AND exactly when the
\* root node of S is an And, and THEN otherwise, whatever the number of
\* source leaves: NOT (E1 AND E2) -> E3 gives two THEN edges and
\* (E1 AND E1) -> E2 gives one AND edge.
C23_RelationFollowsRootOfSource ==
    FlatRunning =>
        LET pairs == SeenPairs
        IN  \A k \in 1..Len(pairs) : \A i \in 1..PairSize(pairs[k]) :
                /\ Offset(pairs, k) + i <= Len(graph_links)
                /\ graph_links[Offset(pairs, k) + i].type =
                        IF pairs[k][1].k = "And" THEN "AND" ELSE "THEN"

\* `L1. NOT (E1 AND E2) -> E3` / `L2. (E1 AND E1) -> E2` was flattened: two
\* THEN edges, then one AND edge.
C23_Witness ==
    /\ flat_pc = "done"
    /\ sections = FlatEntityLines
                    \o <<LinkLine(Id1, SegNotOfPlainAnd), LinkLine(Id2, SegAndOfSame)>>
    /\ LinkEdgesOf(graph_links) =
        <<push_link(EntityNode(U32Of(1)), EntityNode(U32Of(3)), "THEN", TRUE, FALSE),
          push_link(EntityNode(U32Of(2)), EntityNode(U32Of(3)), "THEN", TRUE, FALSE),
          push_link(EntityNode(U32Of(1)), EntityNode(U32Of(2)), "AND", FALSE, FALSE)>>

\* An edge of src/src/wasm.rs by its endpoints, relation and flags.
EdgeOfWasm(e) ==
    [source |-> e.source, target |-> e.target, type |-> e.type,
     source_negated |-> e.sourceNegated, target_negated |-> e.targetNegated]

WasmEdges == [i \in 1..Len(wasm_links[1]) |-> EdgeOfWasm(wasm_links[1][i])]

\* C27: for every tree whose links all have exactly two segments, the two
\* implementations of parse_content emit the same sequence of edges: same
\* endpoints, relation and negation flags, the IF edges from the start node
\* included.
C27_FlattenersEmitSameEdges ==
    (flat_pc = "done" /\ wasm_links # <<>>) => WasmEdges = graph_links

\* What the two implementations share: the edges of the links.
C27_LinkEdgesAgree ==
    (flat_pc = "done" /\ wasm_links # <<>>) =>
        LinkEdgesOf(WasmEdges) = LinkEdgesOf(graph_links)

\* `L1. E1 -> E2` / `L2. E3 -> E1` was flattened by both: src/src/wasm.rs has
\* an IF edge to E1, which is a target of L2, and crates/crt-core has none.
C27_ExtraStartEdgeReached ==
    /\ flat_pc = "done"
    /\ wasm_links # <<>>
    /\ sections = FlatEntityLines \o <<LinkLine(Id1, SegE1ToE2), LinkLine(Id2, SegE3ToE1)>>
    /\ \E i \in 1..Len(WasmEdges) :
            WasmEdges[i] = push_link(StartNode, EntityNode(U32Of(1)), "IF", FALSE, FALSE)
    /\ \A i \in 1..Len(graph_links) :
            graph_links[i] # push_link(StartNode, EntityNode(U32Of(1)), "IF", FALSE, FALSE)

\* ------------------------------------------------------------------ expressions
MaxTokens == 6

TokenPool ==
    {TokEntity(U32Of(1)), TokEntity(U32Of(2)),
     Tok("Not"), Tok("And"), Tok("LParen"), Tok("RParen")}

\* The token streams: every sequence of up to MaxTokens tokens.
TokenStreams == UNION {[1..n -> TokenPool] : n \in 0..MaxTokens}

ExprInit ==
    /\ expr_tokens \in TokenStreams
    /\ expr_result = <<>>
    /\ expr_leaves = <<>>
    /\ SanIdle
    /\ ParseIdle
    /\ FlatIdle
    /\ TimeIdle

\* ExprParser::new(tokens).parse() (parser.rs, line 348).
ExprParse ==
    /\ expr_result = <<>>
    /\ expr_result' = <<ExprParser_parse(expr_tokens)>>
    /\ UNCHANGED <<expr_tokens, expr_leaves>>
    /\ UNCHANGED <<san_vars, parse_vars, flat_vars, time_vars>>

\* flatten_expr on the parsed expression, by the flattener of crt-core and by
\* the one of src/src/wasm.rs.
ExprFlatten ==
    /\ expr_result # <<>>
    /\ expr_result[1].ok
    /\ expr_leaves = <<>>
    /\ expr_leaves' = <<[core |-> flatten_expr(expr_result[1].expr),
                         wasm |-> wasm_flatten_expr(expr_result[1].expr)]>>
    /\ UNCHANGED <<expr_tokens, expr_result>>
    /\ UNCHANGED <<san_vars, parse_vars, flat_vars, time_vars>>

ExprNext ==
    \/ ExprParse
    \/ ExprFlatten

SpecExpr == ExprInit /\ [][ExprNext]_vars

\* ------------------------------------------------------------------ properties of the expression parser
\* The leaves an expression must flatten to: one per entity reference, from
\* left to right, negated when the number of Not nodes above it is odd.
LeavesByParity(expr) ==
    LET occ == Occurrences(expr, 0)
    IN  [i \in 1..Len(occ) |-> Leaf(occ[i].id, occ[i].nots % 2 = 1)]

\* C14: flattening an expression gives each entity leaf negated = (the number
\* of Not nodes on the path from the root to the leaf is odd), And nodes
\* passing the flag unchanged to each conjunct; both flatteners do so.
C14_NegationIsParityOfNots ==
    expr_leaves # <<>> =>
        /\ expr_leaves[1].core = LeavesByParity(expr_result[1].expr)
        /\ expr_leaves[1].wasm = LeavesByParity(expr_result[1].expr)

\* Not(Not(EntityRef(1))) was flattened to the single leaf {id 1, negated
\* false}, the leaf of EntityRef(1).
C14_Witness ==
    /\ expr_leaves # <<>>
    /\ expr_result[1].expr = Not(Not(EntityRef(U32Of(1))))
    /\ expr_leaves[1].core = <<Leaf(U32Of(1), FALSE)>>
    /\ expr_leaves[1].core = flatten_expr(EntityRef(U32Of(1)))

\* A conjunction under a Not: both conjuncts negated.
C14_NegatedConjunctionReached ==
    /\ expr_leaves # <<>>
    /\ expr_result[1].expr = Not(And(<<EntityRef(U32Of(1)), EntityRef(U32Of(2))>>))
    /\ expr_leaves[1].core = <<Leaf(U32Of(1), TRUE), Leaf(U32Of(2), TRUE)>>

\* The trees the grammar
\*   and_expr := not_expr (AND not_expr)*
\*   not_expr := NOT not_expr | primary
\*   primary  := Entity | ( and_expr )
\* derives for exactly the token sequence toks: a conjunction of one not_expr
\* is that not_expr's tree, a conjunction of several an And node of theirs,
\* and a parenthesized and_expr has the tree of the and_expr.
RECURSIVE AndTrees(_)
RECURSIVE AndLists(_)
RECURSIVE NotTrees(_)
RECURSIVE PrimTrees(_)
PrimTrees(toks) ==
    (IF Len(toks) = 1 /\ toks[1].t = "Entity" THEN {EntityRef(toks[1].id)} ELSE {})
        \cup
    (IF Len(toks) >= 3 /\ toks[1].t = "LParen" /\ toks[Len(toks)].t = "RParen"
     THEN AndTrees(SubSeq(toks, 2, Len(toks) - 1)) ELSE {})

NotTrees(toks) ==
    (IF Len(toks) >= 2 /\ toks[1].t = "Not"
     THEN {Not(e) : e \in NotTrees(Tail(toks))} ELSE {})
        \cup PrimTrees(toks)

\* The lists of conjunct trees of toks read as not_expr (AND not_expr)*.
AndLists(toks) ==
    {<<e>> : e \in NotTrees(toks)}
        \cup
    UNION {{<<e>> \o rest :
                e \in NotTrees(SubSeq(toks, 1, k - 1)),
                rest \in AndLists(SubSeq(toks, k + 1, Len(toks)))} :
            k \in {j \in 2..(Len(toks) - 1) : toks[j].t = "And"}}

AndTrees(toks) ==
    {IF Len(l) = 1 THEN l[1] ELSE And(l) : l \in AndLists(toks)}

\* C15: NOT binds tighter than AND and parentheses override it: for every
\* token stream the parser's result is the tree the grammar and_expr :=
\* not_expr (AND not_expr)*, not_expr := NOT not_expr | primary, primary :=
\* Entity | ( and_expr ) derives for the stream, and an error when it derives
\* none.
C15_ParserFollowsGrammar ==
    expr_result # <<>> =>
        LET r == expr_result[1]
            trees == AndTrees(expr_tokens)
        IN  /\ r.ok <=> trees # {}
            /\ r.ok => trees = {r.expr}

\* NOT E1 AND E2 was parsed to And[Not(E1), E2].
C15_Witness ==
    /\ expr_result # <<>>
    /\ expr_tokens = <<Tok("Not"), TokEntity(U32Of(1)), Tok("And"), TokEntity(U32Of(2))>>
    /\ expr_result[1].ok
    /\ expr_result[1].expr = And(<<Not(EntityRef(U32Of(1))), EntityRef(U32Of(2))>>)

\* NOT (E1 AND E2) was parsed to Not(And[E1, E2]).
C15_ParenthesesReached ==
    /\ expr_result # <<>>
    /\ expr_tokens = <<Tok("Not"), Tok("LParen"), TokEntity(U32Of(1)), Tok("And"),
                       TokEntity(U32Of(2)), Tok("RParen")>>
    /\ expr_result[1].ok
    /\ expr_result[1].expr = Not(And(<<EntityRef(U32Of(1)), EntityRef(U32Of(2))>>))

\* NOT NOT E1 was parsed to Not(Not(E1)).
C15_StackedNotReached ==
    /\ expr_result # <<>>
    /\ expr_tokens = <<Tok("Not"), Tok("Not"), TokEntity(U32Of(1))>>
    /\ expr_result[1].ok
    /\ expr_result[1].expr = Not(Not(EntityRef(U32Of(1))))

\* The nodes of an expression.
RECURSIVE Nodes(_)
Nodes(expr) == {expr} \cup UNION {Nodes(expr.args[i]) : i \in 1..Len(expr.args)}

\* C16: every And node of an Expr the expression parser returns has at
\* least two children; a single conjunct, parenthesized or not, is returned
\* as itself, and a conjunction of two or more as an And node of them.
C16_AndHasTwoChildren ==
    (expr_result # <<>> /\ expr_result[1].ok) =>
        /\ \A n \in Nodes(expr_result[1].expr) : n.k = "And" => Len(n.args) >= 2
        /\ \A e \in NotTrees(expr_tokens) : expr_result[1].expr = e
        /\ (\E l \in AndLists(expr_tokens) : Len(l) >= 2) => expr_result[1].expr.k = "And"

\* ( E1 ) AND E2 was parsed to And[E1, E2]: the parenthesized single conjunct
\* is E1 itself, the conjunction of two an And node.
C16_Witness ==
    /\ expr_result # <<>>
    /\ expr_tokens = <<Tok("LParen"), TokEntity(U32Of(1)), Tok("RParen"), Tok("And"),
                       TokEntity(U32Of(2))>>
    /\ expr_result[1].ok
    /\ expr_result[1].expr = And(<<EntityRef(U32Of(1)), EntityRef(U32Of(2))>>)

\* ( E1 ) was parsed to E1, without an And node.
C16_SingleConjunctReached ==
    /\ expr_result # <<>>
    /\ expr_tokens = <<Tok("LParen"), TokEntity(U32Of(1)), Tok("RParen")>>
    /\ expr_result[1].ok
    /\ expr_result[1].expr = EntityRef(U32Of(1))

\* ------------------------------------------------------------------ time allocation
\* The sum m + u + b + f + t as the code evaluates it, from left to right:
\* [overflow, value].
RECURSIVE I32Sum(_, _)
I32Sum(acc, rest) ==
    IF rest = <<>> THEN acc
    ELSE LET r == I32Add(acc.value, Head(rest))
         IN  I32Sum([overflow |-> acc.overflow \/ r.overflow, value |-> r.value],
                    Tail(rest))

TimeTotal(v) == I32Sum([overflow |-> FALSE, value |-> v[1]], Tail(v))

\* is_time_allocation_valid (crt-core wasm.rs lines 160-165) on the values
\* v = <<meetings, unplanned, bugs, feature, tech_debt>>, in a build with
\* overflow checks or without: "true", "false" or "panic".
is_time_allocation_valid(v, checks) ==
    LET total == TimeTotal(v)
        diff  == I32Sub(total.value, I32Of(100))
        dist  == I32Abs(diff.value)
    IN  IF checks /\ (total.overflow \/ diff.overflow \/ dist.overflow) THEN "panic"
        ELSE IF I32LessEq(dist.value, I32Of(1)) THEN "true" ELSE "false"

\* The time allocation checks of AnalyseRequest::validate (validation.rs
\* lines 36-41), the checks before them passed: "Ok", the error, or "panic".
validate(v, checks) ==
    IF \E i \in 1..Len(v) : I32Negative(v[i])
    THEN "Time allocation must be greater than 0"
    ELSE LET total == TimeTotal(v)
         IN  IF checks /\ total.overflow THEN "panic"
             ELSE IF total.value # I32Of(100) THEN "Time allocation must sum to 100"
             ELSE "Ok"

\* The values a field of the request takes here.
TimeValues == {I32Of(n) : n \in {0 - 1, 0, 1, 2, 49, 50}} \cup {I32MaxValue}

TimeInit ==
    /\ time_allocation \in [1..5 -> TimeValues]
    /\ time_ready = <<>>
    /\ time_validated = <<>>
    /\ SanIdle
    /\ ParseIdle
    /\ FlatIdle
    /\ ExprIdle

\* The front end asks whether the time allocation is ready.
TimeReady ==
    /\ time_allocation # <<>>
    /\ time_ready = <<>>
    /\ \E checks \in BOOLEAN :
        time_ready' = <<is_time_allocation_valid(time_allocation, checks)>>
    /\ UNCHANGED <<time_allocation, time_validated>>
    /\ UNCHANGED <<san_vars, parse_vars, flat_vars, expr_vars>>

\* The back end validates the request.
TimeValidate ==
    /\ time_allocation # <<>>
    /\ time_validated = <<>>
    /\ \E checks \in BOOLEAN :
        time_validated' = <<validate(time_allocation, checks)>>
    /\ UNCHANGED <<time_allocation, time_ready>>
    /\ UNCHANGED <<san_vars, parse_vars, flat_vars, expr_vars>>

TimeNext ==
    \/ TimeReady
    \/ TimeValidate

SpecTime == TimeInit /\ [][TimeNext]_vars

\* The errors with which validate rejects a request for its time allocation.
TimeRejections ==
    {"Time allocation must be greater than 0", "Time allocation must sum to 100"}

\* C30: for all five time-allocation values, is_time_allocation_valid returns
\* true exactly when AnalyseRequest.validate does not reject the request for
\* its time allocation, so a request reported ready is never rejected for
\* its time allocation.
C30_ReadyIffNotRejected ==
    (/\ time_ready # <<>> /\ time_validated # <<>>
     /\ time_ready[1] # "panic" /\ time_validated[1] # "panic") =>
        (time_ready[1] = "true" <=> time_validated[1] \notin TimeRejections)

\* 49 + 50 + 0 + 0 + 0 = 99: reported ready and rejected for its sum.
C30_ReadyAndRejected ==
     (/\ time_allocation = <<I32Of(49), I32Of(50), I32Zero, I32Zero, I32Zero>>
      /\ time_ready = <<"true">>
      /\ time_validated = <<"Time allocation must sum to 100">>)

\* -1 + 1 + 50 + 50 + 0 = 100: reported ready and rejected for a negative value.
C30_NegativeReadyAndRejected ==
     (/\ time_allocation = <<I32Of(0 - 1), I32Of(1), I32Of(50), I32Of(50), I32Zero>>
      /\ time_ready = <<"true">>
      /\ time_validated = <<"Time allocation must be greater than 0">>)

\* ------------------------------------------------------------------ streams the parser refuses
\* The token at position i of a stream, "End" after its last token.
TokAt(toks, i) == IF i <= Len(toks) THEN toks[i].t ELSE "End"

\* Position i is one where an entity, NOT or '(' is required: the start of
\* the stream, or after NOT, AND or '('.
OperandAt(toks, i) == i = 1 \/ toks[i - 1].t \in {"Not", "And", "LParen"}

\* The parentheses open before position i.
Depth(toks, i) ==
    Cardinality({j \in 1..(i - 1) : toks[j].t = "LParen"})
        - Cardinality({j \in 1..(i - 1) : toks[j].t = "RParen"})

\* AND, ')' or the end of input where an entity, NOT or '(' is required.
MissingOperand(toks) ==
    \E i \in 1..(Len(toks) + 1) :
        OperandAt(toks, i) /\ TokAt(toks, i) \in {"And", "RParen", "End"}

\* Tokens left after a complete expression: outside all parentheses, an
\* entity, NOT, '(' or ')' follows an entity or a ')'.
TokensLeft(toks) ==
    \E i \in 2..Len(toks) :
        /\ ~OperandAt(toks, i)
        /\ Depth(toks, i) = 0
        /\ TokAt(toks, i) \in {"Entity", "Not", "LParen", "RParen"}

\* An opening parenthesis without its closing one: inside a parenthesis, an
\* entity, NOT, '(' or the end of input follows an entity or a ')'.
Unclosed(toks) ==
    \E i \in 2..(Len(toks) + 1) :
        /\ ~OperandAt(toks, i)
        /\ Depth(toks, i) > 0
        /\ TokAt(toks, i) \in {"Entity", "Not", "LParen", "End"}

\* C24: the expression parser returns an error, and no Expr, for every token
\* stream that is empty, has tokens left after a complete expression, has an
\* opening parenthesis without its closing one, or has AND, ')' or the end
\* of input where an entity, NOT or '(' is required; it returns an Expr for
\* every other stream and consumes all of its tokens.
C24_ErrorsOfTheParser ==
    expr_result # <<>> =>
        LET r == expr_result[1]
            refused == \/ expr_tokens = <<>>
                       \/ TokensLeft(expr_tokens)
                       \/ Unclosed(expr_tokens)
                       \/ MissingOperand(expr_tokens)
        IN  /\ r.ok <=> ~refused
            /\ r.ok => r.pos = Len(expr_tokens)

\* E1 E2 was refused: a token is left after the expression E1.
C24_Witness ==
    /\ expr_tokens = <<TokEntity(U32Of(1)), TokEntity(U32Of(2))>>
    /\ expr_result # <<>>
    /\ ~expr_result[1].ok

\* The empty stream was refused.
C24_EmptyReached ==
    /\ expr_tokens = <<>>
    /\ expr_result # <<>>
    /\ ~expr_result[1].ok

\* ( E1 was refused, and so was E1 AND.
C24_UnclosedReached ==
    /\ expr_tokens = <<Tok("LParen"), TokEntity(U32Of(1))>>
    /\ expr_result # <<>>
    /\ ~expr_result[1].ok

C24_MissingOperandReached ==
    /\ expr_tokens = <<TokEntity(U32Of(1)), Tok("And")>>
    /\ expr_result # <<>>
    /\ ~expr_result[1].ok

\* ( NOT E1 ) AND E2 was accepted, all six tokens consumed.
C24_AcceptedReached ==
    /\ expr_tokens = <<Tok("LParen"), Tok("Not"), TokEntity(U32Of(1)), Tok("RParen"),
                       Tok("And"), TokEntity(U32Of(2))>>
    /\ expr_result # <<>>
    /\ expr_result[1].ok
    /\ expr_result[1].pos = 6

====
